---- MODULE Spec2Model ----
(***************************************************************************)
(* Asteroid shooter: the dynamic asteroid population system.               *)
(*                                                                         *)
(* The model follows src/unnamed/part_000, lines 1-1000 (the variant with  *)
(* the proactive density controller).  World coordinates are integers.     *)
(* Every value the code obtains from the random source or from an input    *)
(* device is drawn from a finite support, held in the variable `sample`,   *)
(* which a specification fixes in its initial state.                       *)
(*                                                                         *)
(* The program is single threaded: a handler runs to completion before     *)
(* the next one starts.  The two handlers that loop over calls of a        *)
(* placement strategy (create and checkAndPopulateDistantAreas) are        *)
(* modelled with a program counter, one call of the strategy per step;     *)
(* while the counter is not "idle" no other handler is enabled.            *)
(*                                                                         *)
(* Ten specifications share the actions.  Spec is the lifecycle of the     *)
(* asteroids and bullets: creation, the spawn timer, the collision         *)
(* handlers, the flash reverts and the frame update.  SpecDensity is the   *)
(* density controller: creation, both timers, a player and a camera that   *)
(* move, over a wider field of sample points.  SpecFrame is the frame      *)
(* update with its two cleanup passes and no collisions.  SpecSpawn is the *)
(* three placement strategies over two sizes and close pairs of points.    *)
(* SpecPure draws the inputs of the overlap check and of the edge choice   *)
(* in its initial state and applies them once.  SpecDefect starts the      *)
(* collision handlers on an asteroid without hitPoints data.  SpecBody is  *)
(* creation with a physics collaborator that may attach no body.           *)
(* SpecShape is generateAsteroidPoints, one loop iteration per step.       *)
(* SpecSteps splits a request of the density tick at asteroidsGroup.add.   *)
(* SpecClock is Spec with a clock that keeps calling the reverts due.      *)
(***************************************************************************)
EXTENDS Integers, Sequences, FiniteSets, TLC

(***************************************************************************)
(* Bounds of the model.                                                    *)
(***************************************************************************)
\* The viewport is 4*SPAWN_BUFFER*ViewUnits wide and 3*SPAWN_BUFFER*ViewUnits high.
ViewUnits == 2
\* At most this many asteroids are live at a time.
MaxAsteroids == 2
\* The same, where the density controller is studied: one more than
\* TARGET_ASTEROIDS_PER_QUADRANT, so that a quadrant can hold too many.
MaxCrowd == 5
\* At most this many destroyed asteroids still have a flash revert pending.
MaxOrphans == 1
\* At most this many shots fit in the frame times the model draws.
MaxShots == 3

(***************************************************************************)
(* Program constants (part_000, lines 69-123).                             *)
(***************************************************************************)
ASTEROID_CATEGORIES ==
    [c \in {"XS", "S", "M"} |->
        CASE c = "XS" -> [minSize |-> 10, maxSize |-> 15, hp |-> 1]
          [] c = "S"  -> [minSize |-> 16, maxSize |-> 24, hp |-> 2]
          [] c = "M"  -> [minSize |-> 25, maxSize |-> 40, hp |-> 3]]
ACTIVE_ASTEROID_CATEGORIES == {"XS", "S", "M"}
ASTEROID_MIN_VERTICES == 6
ASTEROID_MAX_VERTICES == 11
SPAWN_BUFFER == 100
CLEANUP_BUFFER == 400
SPAWN_MAX_RETRIES == 15
ASTEROID_INITIAL_COUNT == 20
PLAYER_INITIAL_SAFE_ZONE_RADIUS == 150
PLAYER_SPEED_THRESHOLD_FOR_BIAS == 50
TARGET_ASTEROIDS_PER_QUADRANT == 4
PROACTIVE_INNER_BUFFER == (SPAWN_BUFFER * 3) \div 2
BULLET_SPEED == 1500
BULLET_COOLDOWN == 300
BULLET_CLEANUP_BUFFER == 50
\* PLAYER_SIZE.height / 2 + 5: the bullet starts this far ahead of the player.
BulletTipOffset == (30 \div 2) + 5

\* The value getData returns for a key that was never set.
Undefined == -1

(***************************************************************************)
(* Geometry (Phaser.Geom.Rectangle as the code uses it).                   *)
(***************************************************************************)
Rectangle(x, y, width, height) ==
    [x |-> x, y |-> y, width |-> width, height |-> height]

\* Phaser.Geom.Rectangle.Contains: both ends of each side belong to the rectangle.
Contains(rect, x, y) ==
    /\ rect.width > 0
    /\ rect.height > 0
    /\ rect.x <= x
    /\ rect.x + rect.width >= x
    /\ rect.y <= y
    /\ rect.y + rect.height >= y

Abs(n) == IF n < 0 THEN -n ELSE n
DistSq(x1, y1, x2, y2) == (x1 - x2) * (x1 - x2) + (y1 - y2) * (y1 - y2)

\* scene.scale.width / height, and the camera's worldView size.
viewWidth == 4 * SPAWN_BUFFER * ViewUnits
viewHeight == 3 * SPAWN_BUFFER * ViewUnits

VARIABLES
    sample,         \* finite support of the random source and of the inputs
    pc,             \* "create" | "idle" | "tick" | "tickDone"
    createI,        \* loop index i of create's initial spawning
    view,           \* camera.worldView: [left, top]
    player,         \* player container: [x, y]
    asteroids,      \* asteroidsGroup: the live asteroids
    orphans,        \* destroyed asteroids a pending flash revert still refers to
    bullets,        \* bulletsGroup: the live bullets
    lastFiredTime,  \* shooting cooldown
    tick,           \* locals of a running checkAndPopulateDistantAreas
    last            \* what the most recent handler call did and returned

vars == <<sample, pc, createI, view, player, asteroids, orphans, bullets,
          lastFiredTime, tick, last>>

worldView == Rectangle(view.left, view.top, viewWidth, viewHeight)

(***************************************************************************)
(* Entities.                                                               *)
(***************************************************************************)
\* A variant that gives every asteroid one hit point, whatever its category.
NewAsteroidOneHp(spawnX, spawnY, categoryName, visualSize, numVertices) ==
    [active     |-> TRUE,
     x          |-> spawnX,
     y          |-> spawnY,
     category   |-> categoryName,
     hitPoints  |-> 1,
     visualSize |-> visualSize,
     points     |-> numVertices,
     isHit      |-> FALSE,
     pending    |-> 0,
     body       |-> TRUE]

\* A game object of asteroidsGroup with the data the spawners attach to it.
\* points stands for the outline: its number of vertices.  pending counts the
\* flash reverts scheduled for the object and not yet fired.
NewAsteroid(spawnX, spawnY, categoryName, visualSize, numVertices) ==
    [active     |-> TRUE,
     x          |-> spawnX,
     y          |-> spawnY,
     category   |-> categoryName,
     hitPoints  |-> ASTEROID_CATEGORIES[categoryName].hp,
     visualSize |-> visualSize,
     points     |-> numVertices,
     isHit      |-> FALSE,
     pending    |-> 0,
     body       |-> TRUE]

\* The graphics object between asteroidsGroup.add and the body test (lines
\* 493-498, 595-600): drawn and positioned, in the group, without a body
\* when the physics collaborator attached none, and without data yet.
Shell(spawnX, spawnY, bodyAttached) ==
    [active     |-> TRUE,
     x          |-> spawnX,
     y          |-> spawnY,
     category   |-> "none",
     hitPoints  |-> Undefined,
     visualSize |-> Undefined,
     points     |-> Undefined,
     isHit      |-> FALSE,
     pending    |-> 0,
     body       |-> bodyAttached]

\* asteroidsGroup.remove(asteroid, true, true): what a closure that still
\* holds the object sees afterwards.  destroy() drops the data manager, so
\* getData('hitPoints') is undefined; isHit stands for the colour the shape
\* was last drawn in.
Destroyed(asteroid) ==
    [active    |-> FALSE,
     hitPoints |-> Undefined,
     isHit     |-> asteroid.isHit,
     pending   |-> asteroid.pending]

NewBullet(x, y, heading) == [active |-> TRUE, x |-> x, y |-> y, heading |-> heading]

\* A destroyed object nothing but the physics step's pair list refers to.
GoneAsteroid == [active |-> FALSE, hitPoints |-> Undefined, isHit |-> FALSE, pending |-> 0]
GoneBullet == [active |-> FALSE, x |-> 0, y |-> 0, heading |-> 0]

(***************************************************************************)
(* The random source and the inputs, restricted to the support `sample`.   *)
(***************************************************************************)
\* Phaser.Math.FloatBetween for both coordinates: the sample points in the box.
PointsBetween(xMin, xMax, yMin, yMax) ==
    {p \in sample.pts : xMin <= p.x /\ p.x <= xMax /\ yMin <= p.y /\ p.y <= yMax}

\* Phaser.Math.Between(category.minSize, category.maxSize)
SizesOf(categoryName) ==
    {s \in sample.sizes : /\ ASTEROID_CATEGORIES[categoryName].minSize <= s
                          /\ s <= ASTEROID_CATEGORIES[categoryName].maxSize}

\* Phaser.Math.Between(ASTEROID_MIN_VERTICES, ASTEROID_MAX_VERTICES)
VertexCounts ==
    {n \in sample.vertices : ASTEROID_MIN_VERTICES <= n /\ n <= ASTEROID_MAX_VERTICES}

\* The candidates a retry loop of n iterations samples, one per iteration.  The
\* live set does not change during the loop, so its result depends only on
\* how many rejected candidates come before the first accepted one: the runs
\* are k times r, then c, with k = 0 and, in a support with long runs, n - 1.
SampleRuns(cands, n) ==
    {[i \in 1..n |-> IF i <= t[3] THEN t[1] ELSE t[2]] :
        t \in cands \X cands \X (IF sample.longRuns THEN {0, n - 1} ELSE {0})}

\* createAndAddBody succeeds or not; it is only reached with a spot.
BodyOutcomes(spot) == IF spot.foundSpot THEN sample.bodies ELSE {TRUE}

(***************************************************************************)
(* Spatial overlap check (part_000, lines 320-331, 461-478, 560-579).      *)
(***************************************************************************)
\* A variant that never reads the size recorded on the live asteroid.
ExistingSizeDefault(existingAsteroid, minSize) == minSize

\* getData('visualSize') || category.minSize
ExistingSize(existingAsteroid, minSize) ==
    IF existingAsteroid.visualSize = Undefined \/ existingAsteroid.visualSize = 0
    THEN minSize
    ELSE existingAsteroid.visualSize

\* A variant that leaves SPAWN_CHECK_RADIUS_MULTIPLIER out of requiredDist.
TooCloseNoMargin(spawnX, spawnY, visualSize, existingAsteroid, minSize) ==
    LET sizes == visualSize + ExistingSize(existingAsteroid, minSize) IN
    DistSq(spawnX, spawnY, existingAsteroid.x, existingAsteroid.y) < sizes * sizes

\* currentDist < requiredDist, requiredDist = (visualSize + existingSize) * 1.2
TooClose(spawnX, spawnY, visualSize, existingAsteroid, minSize) ==
    LET sizes == visualSize + ExistingSize(existingAsteroid, minSize) IN
    25 * DistSq(spawnX, spawnY, existingAsteroid.x, existingAsteroid.y)
        < 36 * sizes * sizes

\* A variant whose checkDist is the sum of the sizes, without the multipliers.
TooFarToCheckTight(spawnX, spawnY, visualSize, existingAsteroid, minSize) ==
    LET sizes == visualSize + ExistingSize(existingAsteroid, minSize) IN
    \/ Abs(existingAsteroid.x - spawnX) > sizes
    \/ Abs(existingAsteroid.y - spawnY) > sizes

\* The coarse test: |dx| > checkDist or |dy| > checkDist,
\* checkDist = (visualSize + existingSize) * 1.2 * 1.5
TooFarToCheck(spawnX, spawnY, visualSize, existingAsteroid, minSize) ==
    LET sizes == visualSize + ExistingSize(existingAsteroid, minSize) IN
    \/ 5 * Abs(existingAsteroid.x - spawnX) > 9 * sizes
    \/ 5 * Abs(existingAsteroid.y - spawnY) > 9 * sizes

\* The iterate callback of spawnAsteroidInView: no coarse test.
OverlapsInView(spawnX, spawnY, visualSize, minSize) ==
    \E existingAsteroid \in asteroids :
        /\ existingAsteroid.active
        /\ TooClose(spawnX, spawnY, visualSize, existingAsteroid, minSize)

\* The iterate callback of spawnAsteroid and of spawnAsteroidInRegion.
Overlaps(spawnX, spawnY, visualSize, minSize) ==
    \E existingAsteroid \in asteroids :
        /\ existingAsteroid.active
        /\ ~TooFarToCheck(spawnX, spawnY, visualSize, existingAsteroid, minSize)
        /\ TooClose(spawnX, spawnY, visualSize, existingAsteroid, minSize)

NoSpot(attempts) == [foundSpot |-> FALSE, x |-> 0, y |-> 0, attempts |-> attempts]
Spot(p, attempts) == [foundSpot |-> TRUE, x |-> p.x, y |-> p.y, attempts |-> attempts]

(***************************************************************************)
(* Region-constrained placement (part_000, lines 545-592).                 *)
(***************************************************************************)
\* spawnX, spawnY = FloatBetween(regionBounds.left, right), (top, bottom)
RegionSamples(regionBounds) ==
    PointsBetween(regionBounds.x, regionBounds.x + regionBounds.width,
                  regionBounds.y, regionBounds.y + regionBounds.height)

\* A variant without CHECK 1.
InCurrentViewSkipped(spawnX, spawnY) == FALSE

\* CHECK 1: Phaser.Geom.Rectangle.Contains(worldView, spawnX, spawnY)
InCurrentView(spawnX, spawnY) == Contains(worldView, spawnX, spawnY)

\* A variant that gives up one iteration early.
RegionRetryShort(retry) == retry < SPAWN_MAX_RETRIES - 1

\* The loop condition retry < SPAWN_MAX_RETRIES.
RegionRetryAllowed(retry) == retry < SPAWN_MAX_RETRIES

RECURSIVE RegionRetryLoop(_, _, _, _)
RegionRetryLoop(run, retry, visualSize, minSize) ==
    IF ~RegionRetryAllowed(retry)
    THEN NoSpot(retry)
    ELSE LET p == run[retry + 1] IN
         IF InCurrentView(p.x, p.y)
         THEN RegionRetryLoop(run, retry + 1, visualSize, minSize)
         ELSE IF Overlaps(p.x, p.y, visualSize, minSize)
              THEN RegionRetryLoop(run, retry + 1, visualSize, minSize)
              ELSE Spot(p, retry + 1)

\* The results of the loop over the runs of the support.
RegionSpots(regionBounds, visualSize, minSize) ==
    {RegionRetryLoop(run, 0, visualSize, minSize) :
        run \in SampleRuns(RegionSamples(regionBounds), SPAWN_MAX_RETRIES)}

(***************************************************************************)
(* Off-screen edge placement (part_000, lines 398-489).                    *)
(***************************************************************************)
\* SPAWN_BIAS_STRENGTH = 0.6, in tenths.
SPAWN_BIAS_STRENGTH_TENTHS == 6

\* A variant that compares with < 45, leaving the diagonals out.
HeadingWithin45Strict(velocity, edge) ==
    CASE edge = 0 -> velocity.y < 0 /\ Abs(velocity.x) < -velocity.y
      [] edge = 1 -> velocity.x > 0 /\ Abs(velocity.y) < velocity.x
      [] edge = 2 -> velocity.y > 0 /\ Abs(velocity.x) < velocity.y
      [] edge = 3 -> velocity.x < 0 /\ Abs(velocity.y) < -velocity.x

\* |ShortestBetween(degPlayerAngle, axis)| <= 45 for the axis an edge faces:
\* edge 0 top (-90), 1 right (0), 2 bottom (90), 3 left (180).
HeadingWithin45(velocity, edge) ==
    CASE edge = 0 -> velocity.y < 0 /\ Abs(velocity.x) <= -velocity.y
      [] edge = 1 -> velocity.x > 0 /\ Abs(velocity.y) <= velocity.x
      [] edge = 2 -> velocity.y > 0 /\ Abs(velocity.x) <= velocity.y
      [] edge = 3 -> velocity.x < 0 /\ Abs(velocity.y) <= -velocity.x

\* weights[edge], in tenths: 1.0, or 1.0 * (1.0 + SPAWN_BIAS_STRENGTH * 4).
EdgeWeight(velocity, edge) ==
    IF HeadingWithin45(velocity, edge)
    THEN 10 + SPAWN_BIAS_STRENGTH_TENTHS * 4
    ELSE 10

\* The selection loop; randomThreshold is in eightieths (Math.random() is
\* drawn in eighths, the weights are in tenths).
RECURSIVE PickWeighted(_, _, _, _)
PickWeighted(velocity, i, randomThreshold, edge) ==
    IF i > 3
    THEN edge
    ELSE IF randomThreshold < 8 * EdgeWeight(velocity, i)
         THEN i
         ELSE PickWeighted(velocity, i + 1,
                           randomThreshold - 8 * EdgeWeight(velocity, i), edge)

\* playerSpeed > PLAYER_SPEED_THRESHOLD_FOR_BIAS
FastEnoughForBias(velocity) ==
    velocity.x * velocity.x + velocity.y * velocity.y
        > PLAYER_SPEED_THRESHOLD_FOR_BIAS * PLAYER_SPEED_THRESHOLD_FOR_BIAS

\* The edge the retry loop uses: randomEdge = Between(0, 3), random = the
\* eighths of Math.random().
SpawnEdge(velocity, randomEdge, random) ==
    IF FastEnoughForBias(velocity)
    THEN PickWeighted(velocity, 0,
             random * (EdgeWeight(velocity, 0) + EdgeWeight(velocity, 1)
                       + EdgeWeight(velocity, 2) + EdgeWeight(velocity, 3)),
             randomEdge)
    ELSE randomEdge

\* The edges the support's velocities and random draws lead to.
SpawnEdges ==
    {SpawnEdge(t[1], t[2], t[3]) :
        t \in sample.velocities \X (sample.edges \cap 0..3) \X (sample.eighths \cap 0..7)}

\* A variant that takes the top edge for the bottom one and the reverse.
EdgeSamplesFlipped(edge, visualSize) ==
    LET left   == view.left
        right  == view.left + viewWidth
        top    == view.top
        bottom == view.top + viewHeight
    IN CASE edge = 2 ->
              {p \in PointsBetween(left - SPAWN_BUFFER, right + SPAWN_BUFFER,
                                   top - SPAWN_BUFFER - visualSize, top - SPAWN_BUFFER) :
                  p.y > top - SPAWN_BUFFER - visualSize}
         [] edge = 1 ->
              {p \in PointsBetween(right + SPAWN_BUFFER, right + SPAWN_BUFFER + visualSize,
                                   top - SPAWN_BUFFER, bottom + SPAWN_BUFFER) :
                  p.x < right + SPAWN_BUFFER + visualSize}
         [] edge = 0 ->
              {p \in PointsBetween(left - SPAWN_BUFFER, right + SPAWN_BUFFER,
                                   bottom + SPAWN_BUFFER, bottom + SPAWN_BUFFER + visualSize) :
                  p.y < bottom + SPAWN_BUFFER + visualSize}
         [] edge = 3 ->
              {p \in PointsBetween(left - SPAWN_BUFFER - visualSize, left - SPAWN_BUFFER,
                                   top - SPAWN_BUFFER, bottom + SPAWN_BUFFER) :
                  p.x > left - SPAWN_BUFFER - visualSize}

\* The switch (edge): FloatBetween along the edge, SPAWN_BUFFER plus
\* Math.random() * visualSize beyond it.
EdgeSamples(edge, visualSize) ==
    LET left   == view.left
        right  == view.left + viewWidth
        top    == view.top
        bottom == view.top + viewHeight
    IN CASE edge = 0 ->
              {p \in PointsBetween(left - SPAWN_BUFFER, right + SPAWN_BUFFER,
                                   top - SPAWN_BUFFER - visualSize, top - SPAWN_BUFFER) :
                  p.y > top - SPAWN_BUFFER - visualSize}
         [] edge = 1 ->
              {p \in PointsBetween(right + SPAWN_BUFFER, right + SPAWN_BUFFER + visualSize,
                                   top - SPAWN_BUFFER, bottom + SPAWN_BUFFER) :
                  p.x < right + SPAWN_BUFFER + visualSize}
         [] edge = 2 ->
              {p \in PointsBetween(left - SPAWN_BUFFER, right + SPAWN_BUFFER,
                                   bottom + SPAWN_BUFFER, bottom + SPAWN_BUFFER + visualSize) :
                  p.y < bottom + SPAWN_BUFFER + visualSize}
         [] edge = 3 ->
              {p \in PointsBetween(left - SPAWN_BUFFER - visualSize, left - SPAWN_BUFFER,
                                   top - SPAWN_BUFFER, bottom + SPAWN_BUFFER) :
                  p.x > left - SPAWN_BUFFER - visualSize}

RECURSIVE EdgeRetryLoop(_, _, _, _)
EdgeRetryLoop(run, retry, visualSize, minSize) ==
    IF ~(retry < SPAWN_MAX_RETRIES)
    THEN NoSpot(retry)
    ELSE LET p == run[retry + 1] IN
         IF Overlaps(p.x, p.y, visualSize, minSize)
         THEN EdgeRetryLoop(run, retry + 1, visualSize, minSize)
         ELSE Spot(p, retry + 1)

EdgeSpots(edge, visualSize, minSize) ==
    {EdgeRetryLoop(run, 0, visualSize, minSize) :
        run \in SampleRuns(EdgeSamples(edge, visualSize), SPAWN_MAX_RETRIES)}

(***************************************************************************)
(* In-view scatter placement (part_000, lines 287-343).                    *)
(***************************************************************************)
\* FloatBetween(margin, spawnAreaWidth - margin), (margin, spawnAreaHeight - margin)
InViewSamples(visualSize) ==
    PointsBetween(visualSize, viewWidth - visualSize,
                  visualSize, viewHeight - visualSize)

\* A variant without the safe-zone test.
InSafeZoneNever(spawnX, spawnY) == FALSE

\* distFromPlayer < PLAYER_INITIAL_SAFE_ZONE_RADIUS, from the player's start.
InSafeZone(spawnX, spawnY) ==
    DistSq(spawnX, spawnY, viewWidth \div 2, viewHeight \div 2)
        < PLAYER_INITIAL_SAFE_ZONE_RADIUS * PLAYER_INITIAL_SAFE_ZONE_RADIUS

RECURSIVE InViewRetryLoop(_, _, _, _)
InViewRetryLoop(run, retry, visualSize, minSize) ==
    IF ~(retry < SPAWN_MAX_RETRIES * 2)
    THEN NoSpot(retry)
    ELSE LET p == run[retry + 1] IN
         IF InSafeZone(p.x, p.y)
         THEN InViewRetryLoop(run, retry + 1, visualSize, minSize)
         ELSE IF OverlapsInView(p.x, p.y, visualSize, minSize)
              THEN InViewRetryLoop(run, retry + 1, visualSize, minSize)
              ELSE Spot(p, retry + 1)

InViewSpots(visualSize, minSize) ==
    {InViewRetryLoop(run, 0, visualSize, minSize) :
        run \in SampleRuns(InViewSamples(visualSize), SPAWN_MAX_RETRIES * 2)}

(***************************************************************************)
(* Density controller (part_000, lines 635-708).                           *)
(***************************************************************************)
\* viewWidth * PROACTIVE_GENERATION_RADIUS_MULTIPLIER * 0.5, the multiplier 2.5
genRadiusX == (viewWidth * 25) \div 20
genRadiusY == (viewHeight * 25) \div 20

genBounds ==
    Rectangle(player.x - genRadiusX, player.y - genRadiusY,
              genRadiusX * 2, genRadiusY * 2)

innerBounds ==
    Rectangle(view.left - PROACTIVE_INNER_BUFFER, view.top - PROACTIVE_INNER_BUFFER,
              viewWidth + PROACTIVE_INNER_BUFFER * 2,
              viewHeight + PROACTIVE_INNER_BUFFER * 2)

\* Top-Left, Top-Right, Bottom-Left, Bottom-Right
quadrants ==
    <<Rectangle(genBounds.x, genBounds.y, genRadiusX, genRadiusY),
      Rectangle(player.x, genBounds.y, genRadiusX, genRadiusY),
      Rectangle(genBounds.x, player.y, genRadiusX, genRadiusY),
      Rectangle(player.x, player.y, genRadiusX, genRadiusY)>>

\* A variant without the break: every quadrant that contains the asteroid.
EveryQuadrant(asteroid, i) == Contains(quadrants[i], asteroid.x, asteroid.y)

\* The inner for loop with its break: the first quadrant that contains the asteroid.
FirstQuadrant(asteroid, i) ==
    /\ Contains(quadrants[i], asteroid.x, asteroid.y)
    /\ \A k \in 1..(i - 1) : ~Contains(quadrants[k], asteroid.x, asteroid.y)

\* The iterate callback: asteroidCounts[i]++ happens for this asteroid.
CountedIn(asteroid, i) ==
    /\ asteroid.active
    /\ ~Contains(innerBounds, asteroid.x, asteroid.y)
    /\ Contains(genBounds, asteroid.x, asteroid.y)
    /\ FirstQuadrant(asteroid, i)

asteroidCounts ==
    [i \in 1..4 |-> Cardinality({a \in asteroids : CountedIn(a, i)})]

\* A variant that asks for one asteroid too many.
NeededPlusOne(count) == TARGET_ASTEROIDS_PER_QUADRANT - count + 1

\* needed = TARGET_ASTEROIDS_PER_QUADRANT - count
Needed(count) == TARGET_ASTEROIDS_PER_QUADRANT - count

\* The outer for loop: the next quadrant, from i on, with needed > 0 (5: none).
RECURSIVE NextNeedy(_, _)
NextNeedy(counts, i) ==
    IF i > 4 THEN 5
    ELSE IF Needed(counts[i]) > 0 THEN i
    ELSE NextNeedy(counts, i + 1)

(***************************************************************************)
(* The record of the most recent handler call: which handler, its outcome, *)
(* the retry iterations it made, the explosions it emitted, the quadrant   *)
(* it was given, the object it acted on as the call left it, whether the   *)
(* bullet and the asteroid it was given were active, and whether the       *)
(* physics step still holds a bullet or an asteroid destroyed in it.       *)
(***************************************************************************)
Note(op, res) ==
    [op |-> op, res |-> res, attempts |-> 0, explosions |-> 0, arg |-> 0,
     object |-> GoneAsteroid, bulletActive |-> FALSE, asteroidActive |-> FALSE,
     bulletGone |-> FALSE, asteroidGone |-> FALSE]

Range(seq) == {seq[k] : k \in 1..Len(seq)}
RemoveAt(seq, k) == [j \in 1..(Len(seq) - 1) |-> IF j < k THEN seq[j] ELSE seq[j + 1]]

\* The orders in which a group's children can stand in its entries array.
Orders(S) ==
    {f \in [1..Cardinality(S) -> S] : \A j, k \in 1..Cardinality(S) : f[j] = f[k] => j = k}

\* A variant that keeps the shell in the group when no body was attached.
WithNewAsteroidKeepsShell(spot, categoryName, visualSize, numVertices, bodyAttached) ==
    IF bodyAttached
    THEN asteroids \cup {NewAsteroid(spot.x, spot.y, categoryName, visualSize, numVertices)}
    ELSE asteroids \cup {Shell(spot.x, spot.y, FALSE)}

\* A variant that adds the new object to the group twice, the second entry
\* one size to the right.
WithNewAsteroidTwice(spot, categoryName, visualSize, numVertices, bodyAttached) ==
    IF bodyAttached
    THEN asteroids \cup {NewAsteroid(spot.x, spot.y, categoryName, visualSize, numVertices),
                         NewAsteroid(spot.x + visualSize, spot.y, categoryName, visualSize,
                                     numVertices)}
    ELSE asteroids

\* asteroidsGroup.add + setPosition + the body test that follows (lines 598-626).
\* A shell without a body is destroyed in the same call.
WithNewAsteroid(spot, categoryName, visualSize, numVertices, bodyAttached) ==
    IF bodyAttached
    THEN asteroids \cup {NewAsteroid(spot.x, spot.y, categoryName, visualSize, numVertices)}
    ELSE asteroids

\* The model holds at most sample.maxLive live asteroids.
RoomFor(spot, bodyAttached) ==
    (spot.foundSpot /\ bodyAttached) => Cardinality(asteroids) < sample.maxLive

(***************************************************************************)
(* spawnAsteroidInRegion(scene, regionBounds), for quadrant i.             *)
(***************************************************************************)
spawnAsteroidInRegion(i) ==
    \E categoryName \in sample.cats \cap ACTIVE_ASTEROID_CATEGORIES :
    \E visualSize \in SizesOf(categoryName) :
    \E numVertices \in VertexCounts :
    \E spot \in RegionSpots(quadrants[i], visualSize,
                             ASTEROID_CATEGORIES[categoryName].minSize) :
    \E bodyAttached \in BodyOutcomes(spot) :
           /\ RoomFor(spot, bodyAttached)
           /\ asteroids' =
                IF spot.foundSpot
                THEN WithNewAsteroid(spot, categoryName, visualSize, numVertices,
                                     bodyAttached)
                ELSE asteroids
           /\ last' = [Note("spawnAsteroidInRegion",
                            IF ~spot.foundSpot THEN "null"
                            ELSE IF bodyAttached THEN "created" ELSE "noBody")
                         EXCEPT !.attempts = spot.attempts, !.arg = i]

(***************************************************************************)
(* spawnAsteroid(scene): op names the caller's record, fallback tells the  *)
(* call made by spawnAsteroidInView from a call of the spawn timer.        *)
(***************************************************************************)
spawnAsteroid(op, fallback, firstAttempts) ==
    \E categoryName \in sample.cats \cap ACTIVE_ASTEROID_CATEGORIES :
    \E visualSize \in SizesOf(categoryName) :
    \E numVertices \in VertexCounts :
    \E edge \in SpawnEdges :
    \E spot \in EdgeSpots(edge, visualSize,
                           ASTEROID_CATEGORIES[categoryName].minSize) :
    \E bodyAttached \in BodyOutcomes(spot) :
           /\ RoomFor(spot, bodyAttached)
           /\ asteroids' =
                IF spot.foundSpot
                THEN WithNewAsteroid(spot, categoryName, visualSize, numVertices,
                                     bodyAttached)
                ELSE asteroids
           /\ last' = [Note(op,
                            IF ~spot.foundSpot
                            THEN (IF fallback THEN "fallbackNull" ELSE "null")
                            ELSE IF bodyAttached
                                 THEN (IF fallback THEN "fallbackCreated" ELSE "created")
                                 ELSE (IF fallback THEN "fallbackNoBody" ELSE "noBody"))
                         EXCEPT !.attempts = firstAttempts + spot.attempts,
                                !.arg = edge]

(***************************************************************************)
(* spawnAsteroidInView(scene), with its fallback to spawnAsteroid.         *)
(***************************************************************************)
spawnAsteroidInView ==
    \E categoryName \in sample.cats \cap ACTIVE_ASTEROID_CATEGORIES :
    \E visualSize \in SizesOf(categoryName) :
    \E numVertices \in VertexCounts :
    \E spot \in InViewSpots(visualSize, ASTEROID_CATEGORIES[categoryName].minSize) :
    \E bodyAttached \in BodyOutcomes(spot) :
           IF spot.foundSpot
           THEN /\ RoomFor(spot, bodyAttached)
                /\ asteroids' = WithNewAsteroid(spot, categoryName, visualSize,
                                                numVertices, bodyAttached)
                /\ last' = [Note("spawnAsteroidInView",
                                 IF bodyAttached THEN "created" ELSE "noBody")
                              EXCEPT !.attempts = spot.attempts]
           ELSE spawnAsteroid("spawnAsteroidInView", TRUE, spot.attempts)

(***************************************************************************)
(* create(): the initial spawning loop, then the timers are installed.     *)
(***************************************************************************)
CreateSpawn ==
    /\ pc = "create"
    /\ createI < ASTEROID_INITIAL_COUNT
    /\ spawnAsteroidInView
    /\ createI' = createI + 1
    /\ UNCHANGED <<sample, pc, view, player, orphans, bullets, lastFiredTime, tick>>

CreateDone ==
    /\ pc = "create"
    /\ createI = ASTEROID_INITIAL_COUNT
    /\ pc' = "idle"
    /\ last' = Note("create", "done")
    /\ UNCHANGED <<sample, createI, view, player, asteroids, orphans, bullets,
                   lastFiredTime, tick>>

(***************************************************************************)
(* asteroidSpawnTimer's callback.                                          *)
(***************************************************************************)
\* A variant that scatters in view, as create does.
SpawnTimerInView ==
    /\ pc = "idle"
    /\ spawnAsteroidInView
    /\ UNCHANGED <<sample, pc, createI, view, player, orphans, bullets,
                   lastFiredTime, tick>>

SpawnTimer ==
    /\ pc = "idle"
    /\ spawnAsteroid("spawnAsteroid", FALSE, 0)
    /\ UNCHANGED <<sample, pc, createI, view, player, orphans, bullets,
                   lastFiredTime, tick>>

(***************************************************************************)
(* proactiveSpawnTimer's callback, checkAndPopulateDistantAreas.           *)
(***************************************************************************)
NoTick == [counts |-> <<0, 0, 0, 0>>, issued |-> <<0, 0, 0, 0>>, i |-> 0]

\* Lines 636-693: the bounds, the quadrants and the count; then the spawn
\* loop is entered at the first quadrant that needs asteroids.
DensityCount ==
    /\ pc = "idle"
    /\ LET counts == asteroidCounts IN
       /\ tick' = [counts |-> counts, issued |-> <<0, 0, 0, 0>>,
                   i |-> NextNeedy(counts, 1)]
       /\ pc' = IF NextNeedy(counts, 1) > 4 THEN "tickDone" ELSE "tick"
    /\ last' = Note("checkAndPopulateDistantAreas", "counted")
    /\ UNCHANGED <<sample, createI, view, player, asteroids, orphans, bullets,
                   lastFiredTime>>

\* Lines 696-707: one iteration of the inner loop, j = tick.issued[tick.i].
DensityRequest ==
    /\ pc = "tick"
    /\ spawnAsteroidInRegion(tick.i)
    /\ LET issued == [tick.issued EXCEPT ![tick.i] = @ + 1]
           i == IF issued[tick.i] < Needed(tick.counts[tick.i])
                THEN tick.i
                ELSE NextNeedy(tick.counts, tick.i + 1)
       IN /\ tick' = [tick EXCEPT !.issued = issued, !.i = i]
          /\ pc' = IF i > 4 THEN "tickDone" ELSE "tick"
    /\ UNCHANGED <<sample, createI, view, player, orphans, bullets, lastFiredTime>>

DensityReturn ==
    /\ pc = "tickDone"
    /\ pc' = "idle"
    /\ tick' = NoTick
    /\ last' = Note("checkAndPopulateDistantAreas", "done")
    /\ UNCHANGED <<sample, createI, view, player, asteroids, orphans, bullets,
                   lastFiredTime>>

(***************************************************************************)
(* Collision handlers (part_000, lines 757-839).                           *)
(***************************************************************************)
\* A variant of the guard that only looks at the asteroid.
BulletNeverInactive(bullet) == FALSE

\* Line 760: !bullet.active || !asteroid.active, the handler returns before
\* it touches anything.
BulletInactive(bullet) == ~bullet.active

\* A variant of the guard that only looks at the bullet.
AsteroidNeverInactive(asteroid) == FALSE

AsteroidInactive(asteroid) == ~asteroid.active

EventIgnored(bullet, asteroid) == BulletInactive(bullet) \/ AsteroidInactive(asteroid)

\* A variant without the test for missing data.
MissingHpNever(currentHp) == FALSE

\* currentHp === undefined || currentHp === null
MissingHp(currentHp) == currentHp = Undefined

\* A variant that takes two hit points per hit.
DecrementedTwice(currentHp) == currentHp - 2

\* currentHp--
Decremented(currentHp) == currentHp - 1

\* A variant that destroys only below zero.
DepletedBelowZero(currentHp) == currentHp < 0

\* currentHp <= 0
Depleted(currentHp) == currentHp <= 0

\* A variant that starts a flash on every hit the asteroid survives.
StartsFlashOnEveryHit(points, isHit) == points # Undefined

\* points && !isHit
StartsFlash(points, isHit) == points # Undefined /\ ~isHit

\* The orphans after the asteroids of removed, in this order, were destroyed.
OrphansWith(removed) ==
    orphans \o SelectSeq([k \in 1..Len(removed) |-> Destroyed(removed[k])],
                         LAMBDA o : o.pending > 0)

\* The model holds at most MaxOrphans destroyed asteroids with a pending revert.
RoomForOrphans(removed) == Len(OrphansWith(removed)) <= MaxOrphans

handleBulletAsteroidCollision(bullet, asteroid) ==
    LET Outcome(res) ==
          [Note("handleBulletAsteroidCollision", res)
             EXCEPT !.bulletActive = bullet.active, !.asteroidActive = asteroid.active]
    IN
    IF EventIgnored(bullet, asteroid)
    THEN /\ last' = [Outcome(IF bullet.active THEN "ignoredAsteroid" ELSE "ignoredBullet")
                       EXCEPT !.bulletGone = last.bulletGone,
                              !.asteroidGone = last.asteroidGone]
         /\ UNCHANGED <<asteroids, orphans, bullets>>
    ELSE /\ bullets' = bullets \ {bullet}
         /\ IF MissingHp(asteroid.hitPoints)
            THEN /\ RoomForOrphans(<<asteroid>>)
                 /\ asteroids' = asteroids \ {asteroid}
                 /\ orphans' = OrphansWith(<<asteroid>>)
                 /\ last' = [Outcome("invalid")
                               EXCEPT !.bulletGone = TRUE, !.asteroidGone = TRUE]
            ELSE LET currentHp == Decremented(asteroid.hitPoints)
                     hit == [asteroid EXCEPT !.hitPoints = currentHp]
                 IN IF Depleted(currentHp)
                    THEN /\ RoomForOrphans(<<hit>>)
                         /\ asteroids' = asteroids \ {asteroid}
                         /\ orphans' = OrphansWith(<<hit>>)
                         /\ last' = [Outcome("destroyed")
                                       EXCEPT !.explosions = 1, !.bulletGone = TRUE,
                                              !.asteroidGone = TRUE]
                    ELSE IF StartsFlash(asteroid.points, asteroid.isHit)
                         THEN /\ asteroids' = (asteroids \ {asteroid}) \cup
                                   {[hit EXCEPT !.isHit = TRUE, !.pending = @ + 1]}
                              /\ orphans' = orphans
                              /\ last' = [Outcome("flashed") EXCEPT !.bulletGone = TRUE]
                         ELSE /\ asteroids' = (asteroids \ {asteroid}) \cup {hit}
                              /\ orphans' = orphans
                              /\ last' = [Outcome("damaged") EXCEPT !.bulletGone = TRUE]

\* The bullets and the asteroids an overlap callback can be given: the live
\* ones, and destroyed ones the caller still holds.
BulletHandles == bullets \cup (IF last.bulletGone THEN {GoneBullet} ELSE {})
AsteroidHandles ==
    asteroids \cup Range(orphans) \cup (IF last.asteroidGone THEN {GoneAsteroid} ELSE {})

BulletOverlap ==
    /\ pc = "idle"
    /\ \E bullet \in BulletHandles : \E asteroid \in AsteroidHandles :
           handleBulletAsteroidCollision(bullet, asteroid)
    /\ UNCHANGED <<sample, pc, createI, view, player, lastFiredTime, tick>>

\* A variant that removes the asteroid without the particle burst.
handlePlayerAsteroidCollisionSilent(asteroidGameObject) ==
    IF ~asteroidGameObject.active
    THEN /\ last' = [Note("handlePlayerAsteroidCollision", "ignored")
                       EXCEPT !.bulletGone = last.bulletGone,
                              !.asteroidGone = last.asteroidGone]
         /\ UNCHANGED <<asteroids, orphans>>
    ELSE /\ RoomForOrphans(<<asteroidGameObject>>)
         /\ asteroids' = asteroids \ {asteroidGameObject}
         /\ orphans' = OrphansWith(<<asteroidGameObject>>)
         /\ last' = [Note("handlePlayerAsteroidCollision", "destroyed")
                       EXCEPT !.asteroidActive = TRUE, !.asteroidGone = TRUE]

\* A variant that treats the collision as a hit: an asteroid with more than
\* one hit point loses one and stays.
handlePlayerAsteroidCollisionAsHit(asteroidGameObject) ==
    IF ~asteroidGameObject.active
    THEN /\ last' = [Note("handlePlayerAsteroidCollision", "ignored")
                       EXCEPT !.bulletGone = last.bulletGone,
                              !.asteroidGone = last.asteroidGone]
         /\ UNCHANGED <<asteroids, orphans>>
    ELSE IF asteroidGameObject.hitPoints > 1
         THEN /\ asteroids' = (asteroids \ {asteroidGameObject}) \cup
                   {[asteroidGameObject EXCEPT !.hitPoints = @ - 1]}
              /\ orphans' = orphans
              /\ last' = [Note("handlePlayerAsteroidCollision", "damaged")
                            EXCEPT !.asteroidActive = TRUE]
         ELSE /\ RoomForOrphans(<<asteroidGameObject>>)
              /\ asteroids' = asteroids \ {asteroidGameObject}
              /\ orphans' = OrphansWith(<<asteroidGameObject>>)
              /\ last' = [Note("handlePlayerAsteroidCollision", "destroyed")
                            EXCEPT !.explosions = 1, !.asteroidActive = TRUE,
                                   !.asteroidGone = TRUE]

handlePlayerAsteroidCollision(asteroidGameObject) ==
    IF ~asteroidGameObject.active
    THEN /\ last' = [Note("handlePlayerAsteroidCollision", "ignored")
                       EXCEPT !.bulletGone = last.bulletGone,
                              !.asteroidGone = last.asteroidGone]
         /\ UNCHANGED <<asteroids, orphans>>
    ELSE /\ RoomForOrphans(<<asteroidGameObject>>)
         /\ asteroids' = asteroids \ {asteroidGameObject}
         /\ orphans' = OrphansWith(<<asteroidGameObject>>)
         /\ last' = [Note("handlePlayerAsteroidCollision", "destroyed")
                       EXCEPT !.explosions = 1, !.asteroidActive = TRUE,
                              !.asteroidGone = TRUE]

PlayerCollision ==
    /\ pc = "idle"
    /\ \E asteroid \in AsteroidHandles : handlePlayerAsteroidCollision(asteroid)
    /\ UNCHANGED <<sample, pc, createI, view, player, bullets, lastFiredTime, tick>>

(***************************************************************************)
(* The flash revert scheduled by delayedCall (part_000, lines 803-809).    *)
(***************************************************************************)
\* A variant of the callback without its guard.
RevertAlways(asteroid) == TRUE

\* A variant of the guard that is one off: hitPoints > 1.
RevertAllowedAboveOne(asteroid) == asteroid.active /\ asteroid.hitPoints > 1

\* asteroid && asteroid.active && asteroid.getData('hitPoints') > 0
RevertAllowed(asteroid) == asteroid.active /\ asteroid.hitPoints > 0

\* A variant of the callback that drops the stored outline once it has
\* redrawn it.
RevertCallbackDropsOutline(asteroid) ==
    IF asteroid.active /\ asteroid.hitPoints > 0
    THEN [asteroid EXCEPT !.isHit = FALSE, !.pending = @ - 1, !.points = Undefined]
    ELSE [asteroid EXCEPT !.pending = @ - 1]

\* The callback, fired: what it leaves of the object it closed over.
RevertCallback(asteroid) ==
    IF RevertAllowed(asteroid)
    THEN [asteroid EXCEPT !.isHit = FALSE, !.pending = @ - 1]
    ELSE [asteroid EXCEPT !.pending = @ - 1]

FlashRevert ==
    /\ pc = "idle"
    /\ \E asteroid \in {a \in asteroids : a.pending > 0} :
         /\ asteroids' = (asteroids \ {asteroid}) \cup {RevertCallback(asteroid)}
         /\ last' = Note("flashRevert",
                         IF RevertAllowed(asteroid) THEN "reverted" ELSE "skipped")
    /\ UNCHANGED <<sample, pc, createI, view, player, orphans, bullets,
                   lastFiredTime, tick>>

FlashRevertDestroyed ==
    /\ pc = "idle"
    /\ \E k \in 1..Len(orphans) :
         LET after == RevertCallback(orphans[k]) IN
         /\ orphans' = IF after.pending > 0
                       THEN [orphans EXCEPT ![k] = after]
                       ELSE RemoveAt(orphans, k)
         /\ last' = [Note("flashRevert",
                          IF RevertAllowed(orphans[k]) THEN "reverted" ELSE "skipped")
                       EXCEPT !.object = after]
    /\ UNCHANGED <<sample, pc, createI, view, player, asteroids, bullets,
                   lastFiredTime, tick>>

(***************************************************************************)
(* update(time, delta) (part_000, lines 255-266, 713-753, 843-883).        *)
(***************************************************************************)
\* A variant that lets the shot go at the cooldown itself.
MayFireAtCooldown(spaceDown, time) == spaceDown /\ time >= lastFiredTime + BULLET_COOLDOWN

\* spaceKey.isDown && time > lastFiredTime + BULLET_COOLDOWN
MayFire(spaceDown, time) == spaceDown /\ time > lastFiredTime + BULLET_COOLDOWN

\* The tip of the ship, BulletTipOffset ahead of the player along its
\* rotation: 0 right, 1 down, 2 left, 3 up.
TipOf(heading) ==
    CASE heading = 0 -> [x |-> player.x + BulletTipOffset, y |-> player.y]
      [] heading = 1 -> [x |-> player.x, y |-> player.y + BulletTipOffset]
      [] heading = 2 -> [x |-> player.x - BulletTipOffset, y |-> player.y]
      [] heading = 3 -> [x |-> player.x, y |-> player.y - BulletTipOffset]

\* shootBullet: a bullet whose body could not be created is removed at once.
BulletsAfterShot(heading, bodyAttached) ==
    IF bodyAttached
    THEN bullets \cup {NewBullet(TipOf(heading).x, TipOf(heading).y, heading)}
    ELSE bullets

\* A variant that keeps to the viewport, whatever the buffer.
CleanupBoundsNoBuffer(buffer) ==
    Rectangle(view.left, view.top, viewWidth, viewHeight)

\* worldView grown by buffer on every side.
CleanupBounds(buffer) ==
    Rectangle(view.left - buffer, view.top - buffer,
              viewWidth + buffer * 2, viewHeight + buffer * 2)

\* The callback's test: the object is out of the cleanup bounds.
OutOfBounds(object, buffer) == ~Contains(CleanupBounds(buffer), object.x, object.y)

\* children.iterate over the entries array while the callback removes from
\* it: the length is read once, an index past the end yields no object.
\* Returns the entries left and the objects removed, in order.
RECURSIVE IterateRemoving(_, _, _, _, _)
IterateRemoving(entries, removed, i, len, buffer) ==
    IF i > len
    THEN [entries |-> entries, removed |-> removed]
    ELSE IF i <= Len(entries) /\ OutOfBounds(entries[i], buffer)
         THEN IterateRemoving(RemoveAt(entries, i), Append(removed, entries[i]),
                              i + 1, len, buffer)
         ELSE IterateRemoving(entries, removed, i + 1, len, buffer)

cleanupOutOfBoundsAsteroids(entries) ==
    IterateRemoving(entries, <<>>, 1, Len(entries), CLEANUP_BUFFER)

cleanupOutOfBoundsBullets(entries) ==
    IterateRemoving(entries, <<>>, 1, Len(entries), BULLET_CLEANUP_BUFFER)

\* The frame times the model draws: around each multiple of the cooldown.
FrameTimes ==
    UNION {{k * (BULLET_COOLDOWN + 1) - 1, k * (BULLET_COOLDOWN + 1)} : k \in 1..MaxShots}

Update ==
    /\ pc = "idle"
    /\ \E time \in sample.times \cap FrameTimes :
       \E spaceDown \in sample.keys :
       \E heading \in sample.headings \cap 0..3 :
       \E bodyAttached \in sample.bodies :
       \E asteroidEntries \in Orders(asteroids) :
         LET fires == MayFire(spaceDown, time)
             shot == IF fires THEN BulletsAfterShot(heading, bodyAttached) ELSE bullets
             swept == cleanupOutOfBoundsAsteroids(asteroidEntries)
         IN /\ time >= lastFiredTime
            /\ (fires /\ bodyAttached) =>
                   NewBullet(TipOf(heading).x, TipOf(heading).y, heading) \notin bullets
            /\ lastFiredTime' = IF fires THEN time ELSE lastFiredTime
            /\ RoomForOrphans(swept.removed)
            /\ asteroids' = Range(swept.entries)
            /\ orphans' = OrphansWith(swept.removed)
            /\ \E bulletEntries \in Orders(shot) :
                 bullets' = Range(cleanupOutOfBoundsBullets(bulletEntries).entries)
            /\ last' = [Note("update", IF fires THEN "fired" ELSE "frame")
                          EXCEPT !.attempts = Len(swept.removed)]
    /\ UNCHANGED <<sample, pc, createI, view, player, tick>>

(***************************************************************************)
(* The collaborators: physics integration, player movement, camera.        *)
(***************************************************************************)
\* An asteroid drifts to a sample point no other asteroid occupies.
Drift ==
    /\ pc = "idle"
    /\ \E asteroid \in asteroids : \E p \in sample.driftTo :
         /\ \A other \in asteroids : other.x # p.x \/ other.y # p.y
         /\ asteroids' = (asteroids \ {asteroid}) \cup
                           {[asteroid EXCEPT !.x = p.x, !.y = p.y]}
    /\ last' = Note("physics", "drift")
    /\ UNCHANGED <<sample, pc, createI, view, player, orphans, bullets,
                   lastFiredTime, tick>>

\* The distance a bullet covers during one cooldown.
BulletHop == (BULLET_SPEED * BULLET_COOLDOWN) \div 1000

\* A bullet in the cleanup bounds flies on along its heading.
BulletFly ==
    /\ pc = "idle"
    /\ \E bullet \in bullets :
         LET moved ==
               CASE bullet.heading = 0 -> [bullet EXCEPT !.x = @ + BulletHop]
                 [] bullet.heading = 1 -> [bullet EXCEPT !.y = @ + BulletHop]
                 [] bullet.heading = 2 -> [bullet EXCEPT !.x = @ - BulletHop]
                 [] bullet.heading = 3 -> [bullet EXCEPT !.y = @ - BulletHop]
         IN /\ ~OutOfBounds(bullet, BULLET_CLEANUP_BUFFER)
            /\ moved \notin bullets
            /\ bullets' = (bullets \ {bullet}) \cup {moved}
    /\ last' = Note("physics", "bullet")
    /\ UNCHANGED <<sample, pc, createI, view, player, asteroids, orphans,
                   lastFiredTime, tick>>

\* The player moves to another of its sample positions.
PlayerMove ==
    /\ pc = "idle"
    /\ \E p \in sample.playerPts :
         /\ p # player
         /\ player' = p
    /\ last' = Note("physics", "player")
    /\ UNCHANGED <<sample, pc, createI, view, asteroids, orphans, bullets,
                   lastFiredTime, tick>>

\* The camera, which follows the player, centres on it.
CameraFollow ==
    /\ pc = "idle"
    /\ view # [left |-> player.x - viewWidth \div 2, top |-> player.y - viewHeight \div 2]
    /\ view' = [left |-> player.x - viewWidth \div 2, top |-> player.y - viewHeight \div 2]
    /\ last' = Note("physics", "camera")
    /\ UNCHANGED <<sample, pc, createI, player, asteroids, orphans, bullets,
                   lastFiredTime, tick>>

(***************************************************************************)
(* Sample points, relative to the initial viewport (0, 0, width, height).  *)
(***************************************************************************)
Pt(x, y) == [x |-> x, y |-> y]
PtCentre    == Pt(viewWidth \div 2, viewHeight \div 2)
\* In view, an asteroid radius from the right side.
PtInView    == Pt(viewWidth - 40, viewHeight \div 2)
\* On the right edge's spawn line and on the top edge's.
PtRightEdge == Pt(viewWidth + SPAWN_BUFFER, viewHeight \div 2)
PtTopEdge   == Pt(viewWidth \div 2, -SPAWN_BUFFER)
\* Just beyond the asteroid cleanup bounds.
PtBeyond    == Pt(viewWidth + CLEANUP_BUFFER + 1, viewHeight \div 2)

\* The support of the specification Spec.
LifeSample ==
    [pts       |-> {PtCentre, PtInView, PtRightEdge},
     driftTo   |-> {PtBeyond},
     playerPts |-> {PtCentre},
     cats      |-> {"XS", "S", "M"},
     sizes     |-> {10, 24, 40},
     vertices  |-> {6},
     bodies    |-> {TRUE, FALSE},
     edges     |-> {1},
     velocities |-> {Pt(0, 0), Pt(60, 0)},
     eighths   |-> {2},
     times     |-> FrameTimes,
     keys      |-> {TRUE, FALSE},
     headings  |-> {0},
     longRuns  |-> TRUE,
     maxLive   |-> MaxAsteroids]

InitWith(support) ==
    /\ sample = support
    /\ pc = "create"
    /\ createI = 0
    /\ view = [left |-> 0, top |-> 0]
    /\ player = PtCentre
    /\ asteroids = {}
    /\ orphans = <<>>
    /\ bullets = {}
    /\ lastFiredTime = 0
    /\ tick = NoTick
    /\ last = Note("none", "none")

Init == InitWith(LifeSample)

Next ==
    \/ CreateSpawn
    \/ CreateDone
    \/ SpawnTimer
    \/ BulletOverlap
    \/ PlayerCollision
    \/ FlashRevert
    \/ FlashRevertDestroyed
    \/ Update
    \/ Drift
    \/ BulletFly

Spec == Init /\ [][Next]_vars

\* The lifecycle with a scene clock that keeps running: a delayedCall that is
\* due is called.
SpecClock ==
    Init /\ [][Next]_vars /\ WF_vars(FlashRevert) /\ WF_vars(FlashRevertDestroyed)

(***************************************************************************)
(* The density controller's specification: no shooting, one category, a    *)
(* player that moves between two positions, and a wider field of points.   *)
(***************************************************************************)
\* Three points of the top-left quadrant, beyond the inner exclusion
\* rectangle, and a fourth that only drifting asteroids reach.
PtCrowd(k)  == Pt(-2 * SPAWN_BUFFER - 120 * k, -2 * SPAWN_BUFFER)
PtCrowdLow  == Pt(-2 * SPAWN_BUFFER, -2 * SPAWN_BUFFER - 120)
\* Above the player's start: on the line between the left and right quadrants.
PtAbove     == Pt(viewWidth \div 2, -(viewHeight \div 2))
\* In view, left of the safe zone: the player's second position.
PtLeft      == Pt(viewWidth \div 4, viewHeight \div 2)
\* On the right side of the generation window of the player's start, and
\* on the line between the top and bottom quadrants.
PtGenEdge   == Pt(viewWidth \div 2 + genRadiusX, viewHeight \div 2)

DensitySample ==
    [pts       |-> {PtCrowd(0), PtCrowd(1), PtCrowd(2), PtAbove, PtLeft,
                    PtInView, PtRightEdge, PtGenEdge},
     driftTo   |-> {PtCrowdLow},
     playerPts |-> {PtCentre, PtLeft},
     cats      |-> {"M"},
     sizes     |-> {40},
     vertices  |-> {6},
     bodies    |-> {TRUE},
     edges     |-> {1},
     velocities |-> {Pt(0, 0)},
     eighths   |-> {2},
     times     |-> {},
     keys      |-> {},
     headings  |-> {},
     longRuns  |-> FALSE,
     maxLive   |-> MaxCrowd]

InitDensity == InitWith(DensitySample)

NextDensity ==
    \/ CreateSpawn
    \/ CreateDone
    \/ SpawnTimer
    \/ DensityCount
    \/ DensityRequest
    \/ DensityReturn
    \/ PlayerCollision
    \/ Drift
    \/ PlayerMove
    \/ CameraFollow

SpecDensity == InitDensity /\ [][NextDensity]_vars

(***************************************************************************)
(* The frame update's specification: asteroids that drift to either side   *)
(* of the cleanup bounds and bullets fired to the right and to the left,   *)
(* with no collisions, so that every removal is one of the cleanup passes. *)
(***************************************************************************)
\* One short of the right side of the asteroid cleanup bounds.
PtWithin    == Pt(viewWidth + CLEANUP_BUFFER - 1, viewHeight \div 2)
\* Just beyond the bottom side of the asteroid cleanup bounds.
PtBelow     == Pt(viewWidth \div 2, viewHeight + CLEANUP_BUFFER + 1)

FrameSample ==
    [pts       |-> {PtInView, PtRightEdge},
     driftTo   |-> {PtWithin, PtBeyond, PtBelow},
     playerPts |-> {PtCentre},
     cats      |-> {"XS"},
     sizes     |-> {10},
     vertices  |-> {6},
     bodies    |-> {TRUE},
     edges     |-> {1},
     velocities |-> {Pt(0, 0)},
     eighths   |-> {2},
     times     |-> FrameTimes,
     keys      |-> {TRUE, FALSE},
     headings  |-> {0, 2},
     longRuns  |-> FALSE,
     maxLive   |-> MaxAsteroids + 1]

InitFrame == InitWith(FrameSample)

NextFrame ==
    \/ CreateSpawn
    \/ CreateDone
    \/ SpawnTimer
    \/ Update
    \/ Drift
    \/ BulletFly

SpecFrame == InitFrame /\ [][NextFrame]_vars

(***************************************************************************)
(* The placement strategies' specification: two sizes, points on all four  *)
(* spawn lines of the initial viewport, pairs of points closer than the    *)
(* distance two large asteroids need, and a player that moves.             *)
(***************************************************************************)
\* In view, 50 left of PtInView: too close to it for all but two small asteroids.
PtNearInView == Pt(viewWidth - 90, viewHeight \div 2)
\* On the right edge's spawn line, 90 below PtRightEdge: too close to it for
\* two large asteroids only.
PtNearEdge   == Pt(viewWidth + SPAWN_BUFFER, viewHeight \div 2 + 90)
\* On the bottom and the left edge's spawn lines.
PtBottomEdge == Pt(viewWidth \div 2, viewHeight + SPAWN_BUFFER)
PtLeftEdge   == Pt(-SPAWN_BUFFER, viewHeight \div 2)

SpawnSample ==
    [pts       |-> {PtCentre, PtInView, PtNearInView, PtRightEdge, PtNearEdge,
                    PtTopEdge, PtBottomEdge, PtLeftEdge},
     driftTo   |-> {},
     playerPts |-> {PtCentre, PtLeft},
     cats      |-> {"XS", "M"},
     sizes     |-> {10, 40},
     vertices  |-> {6},
     bodies    |-> {TRUE},
     edges     |-> {0, 1, 2, 3},
     velocities |-> {Pt(0, 0), Pt(60, 0)},
     eighths   |-> {2},
     times     |-> {},
     keys      |-> {},
     headings  |-> {},
     longRuns  |-> FALSE,
     maxLive   |-> MaxAsteroids]

InitSpawn == InitWith(SpawnSample)

NextSpawn ==
    \/ CreateSpawn
    \/ CreateDone
    \/ SpawnTimer
    \/ DensityCount
    \/ DensityRequest
    \/ DensityReturn
    \/ PlayerCollision
    \/ PlayerMove
    \/ CameraFollow

SpecSpawn == InitSpawn /\ [][NextSpawn]_vars

(***************************************************************************)
(* The specification of the two pure computations of the edge strategy,    *)
(* the overlap check and the choice of the edge.  The initial state draws  *)
(* the inputs: a candidate and a live set for the check, or a velocity and *)
(* the two random draws for the choice; one action applies each.           *)
(***************************************************************************)
\* Offsets of the candidate from the live asteroid at the origin, around the
\* required distances 24 (sizes 10 + 10), 60 (10 + 40) and 96 (40 + 40) and
\* the coarse distances 36, 90 and 144.
CheckOffsets == {-37, 0, 15, 23, 24, 36, 60, 90, 96, 145}

\* The category of each size used.
CheckCategory == [s \in {10, 24, 40} |-> CASE s = 10 -> "XS" [] s = 24 -> "S" [] s = 40 -> "M"]

\* The live sets: an asteroid at the origin, alone or with a second one.
CheckLiveSets ==
    {{NewAsteroid(0, 0, CheckCategory[s], s, ASTEROID_MIN_VERTICES)} \cup second :
        s \in DOMAIN CheckCategory,
        second \in {{}} \cup {{NewAsteroid(100, 0, CheckCategory[t], t, ASTEROID_MIN_VERTICES)} :
                                  t \in DOMAIN CheckCategory}}

\* The player's velocities: components around the bias threshold of 50.
PickSpeeds == {-60, -40, -30, 0, 30, 40, 60}

\* A support that holds exactly the inputs drawn.
PureSample(pts, cats, sizes, velocities, edges, eighths) ==
    [pts       |-> pts,
     driftTo   |-> {},
     playerPts |-> {PtCentre},
     cats      |-> cats,
     sizes     |-> sizes,
     vertices  |-> {ASTEROID_MIN_VERTICES},
     bodies    |-> {TRUE},
     edges     |-> edges,
     velocities |-> velocities,
     eighths   |-> eighths,
     times     |-> {},
     keys      |-> {},
     headings  |-> {},
     longRuns  |-> FALSE,
     maxLive   |-> MaxAsteroids]

InitPure ==
    /\ createI = ASTEROID_INITIAL_COUNT
    /\ view = [left |-> 0, top |-> 0]
    /\ player = PtCentre
    /\ orphans = <<>>
    /\ bullets = {}
    /\ lastFiredTime = 0
    /\ tick = NoTick
    /\ last = Note("none", "none")
    /\ \/ /\ pc = "overlapCheck"
          /\ \E dx \in CheckOffsets : \E dy \in CheckOffsets : \E s \in DOMAIN CheckCategory :
                sample = PureSample({Pt(dx, dy)}, {CheckCategory[s]}, {s}, {}, {}, {})
          /\ asteroids \in CheckLiveSets
       \/ /\ pc = "edgePick"
          /\ \E vx \in PickSpeeds : \E vy \in PickSpeeds : \E randomEdge \in 0..3 :
             \E random \in 0..7 :
                sample = PureSample({}, {}, {}, {Pt(vx, vy)}, {randomEdge}, {random})
          /\ asteroids = {}

\* The overlap check of one candidate against the live set, as the edge and
\* region strategies make it (res) and as the scatter makes it (arg).
CheckOverlap ==
    /\ pc = "overlapCheck"
    /\ \E p \in sample.pts :
       \E categoryName \in sample.cats :
       \E visualSize \in SizesOf(categoryName) :
         LET minSize == ASTEROID_CATEGORIES[categoryName].minSize IN
         last' = [Note("overlapCheck",
                       IF Overlaps(p.x, p.y, visualSize, minSize)
                       THEN "overlaps" ELSE "clear")
                    EXCEPT !.arg = IF OverlapsInView(p.x, p.y, visualSize, minSize)
                                   THEN 1 ELSE 0]
    /\ pc' = "checked"
    /\ UNCHANGED <<sample, createI, view, player, asteroids, orphans, bullets,
                   lastFiredTime, tick>>

\* The choice of the spawn edge, lines 398-436.
PickEdge ==
    /\ pc = "edgePick"
    /\ \E edge \in SpawnEdges : last' = [Note("edgePick", "picked") EXCEPT !.arg = edge]
    /\ pc' = "picked"
    /\ UNCHANGED <<sample, createI, view, player, asteroids, orphans, bullets,
                   lastFiredTime, tick>>

NextPure ==
    \/ CheckOverlap
    \/ PickEdge

SpecPure == InitPure /\ [][NextPure]_vars

(***************************************************************************)
(* The specification of the collision handlers on an asteroid whose        *)
(* hitPoints data is missing.  No spawner leaves an asteroid without it,   *)
(* so the initial state draws the handlers' inputs: one such asteroid,     *)
(* flashing or not, alone or beside a sound one, and two bullets.          *)
(***************************************************************************)
\* An active asteroid for which getData('hitPoints') is undefined.
WithoutHitPoints(p, categoryName, visualSize, flashing) ==
    [NewAsteroid(p.x, p.y, categoryName, visualSize, ASTEROID_MIN_VERTICES)
        EXCEPT !.hitPoints = Undefined,
               !.isHit = flashing,
               !.pending = IF flashing THEN 1 ELSE 0]

InitDefect ==
    /\ sample = LifeSample
    /\ pc = "idle"
    /\ createI = ASTEROID_INITIAL_COUNT
    /\ view = [left |-> 0, top |-> 0]
    /\ player = PtCentre
    /\ \E p \in {PtInView, PtRightEdge} : \E s \in DOMAIN CheckCategory :
       \E flashing \in BOOLEAN :
       \E others \in {{}} \cup {{NewAsteroid(PtWithin.x, PtWithin.y, CheckCategory[t], t,
                                             ASTEROID_MIN_VERTICES)} :
                                   t \in DOMAIN CheckCategory} :
          asteroids = {WithoutHitPoints(p, CheckCategory[s], s, flashing)} \cup others
    /\ orphans = <<>>
    /\ bullets = {NewBullet(TipOf(0).x, TipOf(0).y, 0), NewBullet(TipOf(2).x, TipOf(2).y, 2)}
    /\ lastFiredTime = 0
    /\ tick = NoTick
    /\ last = Note("none", "none")

NextDefect ==
    \/ BulletOverlap
    \/ PlayerCollision
    \/ FlashRevert
    \/ FlashRevertDestroyed

SpecDefect == InitDefect /\ [][NextDefect]_vars

(***************************************************************************)
(* The specification of body creation that can fail: the three placement   *)
(* strategies over a few points, one size, with both outcomes of the       *)
(* physics collaborator.                                                   *)
(***************************************************************************)
BodySample ==
    [pts       |-> {PtInView, PtRightEdge, PtTopEdge, PtBottomEdge},
     driftTo   |-> {},
     playerPts |-> {PtCentre},
     cats      |-> {"XS", "S"},
     sizes     |-> {10, 24},
     vertices  |-> {ASTEROID_MIN_VERTICES},
     bodies    |-> {TRUE, FALSE},
     edges     |-> {0, 1},
     velocities |-> {Pt(0, 0)},
     eighths   |-> {2},
     times     |-> {},
     keys      |-> {},
     headings  |-> {},
     longRuns  |-> FALSE,
     maxLive   |-> MaxAsteroids]

InitBody == InitWith(BodySample)

NextBody ==
    \/ CreateSpawn
    \/ CreateDone
    \/ SpawnTimer
    \/ DensityCount
    \/ DensityRequest
    \/ DensityReturn
    \/ PlayerCollision

SpecBody == InitBody /\ [][NextBody]_vars

(***************************************************************************)
(* The specification of generateAsteroidPoints (part_000, lines 925-942)   *)
(* and of drawAsteroidShape (lines 944-973).  The initial state draws      *)
(* avgRadius and numVertices; one step is one iteration of the loop.  A    *)
(* point is kept as the angle and the radius its x and y are computed      *)
(* from: the angle in FullTurn-ths of a turn, the radius in 80ths of a     *)
(* pixel, so that every quantity of the function is a whole number.        *)
(***************************************************************************)
\* Math.PI * 2, in angle units: 40 times the least common multiple of 6..11.
FullTurn == 1108800

\* ASTEROID_JAGGEDNESS, 0.4, in tenths.
ASTEROID_JAGGEDNESS_TENTHS == 4

\* The factor of angleStep in the angle variation, 0.3, in tenths.
AngleVariationTenths == 3

\* The outcomes of the two draws of one iteration (angle, radius), in eighths
\* of Math.random().
ShapeDraws == {<<0, 7>>, <<7, 0>>, <<4, 4>>}

\* Phaser.Math.FloatBetween(min, max): min + Math.random() * (max - min).
FloatBetween(min, max, random) == min + (random * (max - min)) \div 8

\* A variant with ASTEROID_JAGGEDNESS at 0.5.
AsteroidPointWide(avgRadius, numVertices, i, angleRandom, radiusRandom) ==
    LET angleStep == FullTurn \div numVertices
        radiusMin == avgRadius * 8 * (10 - 5)
        radiusMax == avgRadius * 8 * (10 + 5)
        baseAngle == i * angleStep
        variation == (angleStep * AngleVariationTenths) \div 10
    IN [angle  |-> baseAngle + (-variation + (angleRandom * (2 * variation)) \div 8),
        radius |-> radiusMin + (radiusRandom * (radiusMax - radiusMin)) \div 8]

\* A variant with an angle variation of 0.6 sector widths.
AsteroidPointLoose(avgRadius, numVertices, i, angleRandom, radiusRandom) ==
    LET angleStep == FullTurn \div numVertices
        radiusMin == avgRadius * 8 * (10 - ASTEROID_JAGGEDNESS_TENTHS)
        radiusMax == avgRadius * 8 * (10 + ASTEROID_JAGGEDNESS_TENTHS)
        baseAngle == i * angleStep
        variation == (angleStep * 6) \div 10
    IN [angle  |-> baseAngle + (-variation + (angleRandom * (2 * variation)) \div 8),
        radius |-> radiusMin + (radiusRandom * (radiusMax - radiusMin)) \div 8]

\* The body of the loop for index i: the point pushed.
AsteroidPoint(avgRadius, numVertices, i, angleRandom, radiusRandom) ==
    LET angleStep == FullTurn \div numVertices
        radiusMin == avgRadius * 8 * (10 - ASTEROID_JAGGEDNESS_TENTHS)
        radiusMax == avgRadius * 8 * (10 + ASTEROID_JAGGEDNESS_TENTHS)
        baseAngle == i * angleStep
        variation == (angleStep * AngleVariationTenths) \div 10
    IN [angle  |-> baseAngle + FloatBetween(-variation, variation, angleRandom),
        radius |-> FloatBetween(radiusMin, radiusMax, radiusRandom)]

InitShape ==
    /\ pc = "shape"
    /\ createI = ASTEROID_INITIAL_COUNT
    /\ view = [left |-> 0, top |-> 0]
    /\ player = PtCentre
    /\ asteroids = {}
    /\ orphans = <<>>
    /\ bullets = {}
    /\ lastFiredTime = 0
    /\ tick = NoTick
    /\ \E avgRadius \in {ASTEROID_CATEGORIES["XS"].minSize, ASTEROID_CATEGORIES["M"].maxSize} :
       \E numVertices \in ASTEROID_MIN_VERTICES..ASTEROID_MAX_VERTICES :
          sample = [PureSample({}, {}, {avgRadius}, {}, {}, {})
                      EXCEPT !.vertices = {numVertices}]
    /\ last = [Note("generateAsteroidPoints", "called") EXCEPT !.object = <<>>]

\* for (let i = 0; i < numVertices; i++) { ... points.push(...) }: one
\* iteration; last.object is the points array.
GeneratePoint ==
    /\ pc = "shape"
    /\ \E avgRadius \in sample.sizes : \E numVertices \in sample.vertices :
       \E draw \in ShapeDraws :
          LET points == last.object
              i == Len(points)
              pushed == Append(points, AsteroidPoint(avgRadius, numVertices, i,
                                                     draw[1], draw[2]))
          IN /\ i < numVertices
             /\ last' = [Note("generateAsteroidPoints",
                              IF i + 1 < numVertices THEN "called" ELSE "returned")
                           EXCEPT !.object = pushed]
             /\ pc' = IF i + 1 < numVertices THEN "shape" ELSE "shaped"
    /\ UNCHANGED <<sample, createI, view, player, asteroids, orphans, bullets,
                   lastFiredTime, tick>>

\* drawAsteroidShape(graphics, points): reads the points, writes none.
DrawShape ==
    /\ pc = "shaped"
    /\ last' = [Note("drawAsteroidShape",
                     IF Len(last.object) < 3 THEN "ignored" ELSE "drawn")
                  EXCEPT !.object = last.object]
    /\ pc' = "drawn"
    /\ UNCHANGED <<sample, createI, view, player, asteroids, orphans, bullets,
                   lastFiredTime, tick>>

NextShape ==
    \/ GeneratePoint
    \/ DrawShape

SpecShape == InitShape /\ [][NextShape]_vars

(***************************************************************************)
(* The specification of the steps inside spawnAsteroidInRegion (part_000,  *)
(* lines 594-627): a density tick's request is two steps, the one up to    *)
(* asteroidsGroup.add and the one from the body test on, and the timers,   *)
(* the frame update and the callbacks run between calls only, as the       *)
(* single-threaded event loop runs them.                                   *)
(***************************************************************************)
\* A variant in which control goes back to the tick's loop after the add.
AfterAddYields == "tick"

\* Control after asteroidsGroup.add and setPosition: the body test, in the
\* same call.
AfterAdd == "attach"

InitSteps ==
    InitWith([BodySample EXCEPT !.times = FrameTimes, !.keys = {TRUE, FALSE},
                                !.headings = {0}])

\* Lines 545-600: selection, retry loop, graphics, asteroidsGroup.add.
\* last.object holds the locals the rest of the call attaches.
RegionAdd ==
    /\ pc = "tick"
    /\ \E categoryName \in sample.cats \cap ACTIVE_ASTEROID_CATEGORIES :
       \E visualSize \in SizesOf(categoryName) :
       \E numVertices \in VertexCounts :
       \E spot \in RegionSpots(quadrants[tick.i], visualSize,
                                ASTEROID_CATEGORIES[categoryName].minSize) :
       \E bodyAttached \in BodyOutcomes(spot) :
          LET issued == [tick.issued EXCEPT ![tick.i] = @ + 1]
              i == IF issued[tick.i] < Needed(tick.counts[tick.i])
                   THEN tick.i
                   ELSE NextNeedy(tick.counts, tick.i + 1)
          IN /\ RoomFor(spot, bodyAttached)
             /\ IF spot.foundSpot
                THEN /\ asteroids' = asteroids \cup {Shell(spot.x, spot.y, bodyAttached)}
                     /\ last' = [Note("spawnAsteroidInRegion", "added")
                                   EXCEPT !.attempts = spot.attempts, !.arg = tick.i,
                                          !.object = NewAsteroid(spot.x, spot.y, categoryName,
                                                                 visualSize, numVertices)]
                     /\ pc' = AfterAdd
                     /\ tick' = tick
                ELSE /\ asteroids' = asteroids
                     /\ last' = [Note("spawnAsteroidInRegion", "null")
                                   EXCEPT !.attempts = spot.attempts, !.arg = tick.i]
                     /\ pc' = IF i > 4 THEN "tickDone" ELSE "tick"
                     /\ tick' = [tick EXCEPT !.issued = issued, !.i = i]
    /\ UNCHANGED <<sample, createI, view, player, orphans, bullets, lastFiredTime>>

\* Lines 602-626: with a body the data is set and the asteroid returned,
\* without one the shell is destroyed; then the tick's loop goes on.
RegionAttach ==
    /\ pc = "attach"
    /\ \E shell \in {a \in asteroids : a.category = "none"} :
          LET issued == [tick.issued EXCEPT ![tick.i] = @ + 1]
              i == IF issued[tick.i] < Needed(tick.counts[tick.i])
                   THEN tick.i
                   ELSE NextNeedy(tick.counts, tick.i + 1)
          IN /\ asteroids' = IF shell.body
                             THEN (asteroids \ {shell}) \cup {last.object}
                             ELSE asteroids \ {shell}
             /\ last' = [Note("spawnAsteroidInRegion",
                              IF shell.body THEN "created" ELSE "noBody")
                           EXCEPT !.attempts = last.attempts, !.arg = tick.i]
             /\ pc' = IF i > 4 THEN "tickDone" ELSE "tick"
             /\ tick' = [tick EXCEPT !.issued = issued, !.i = i]
    /\ UNCHANGED <<sample, createI, view, player, orphans, bullets, lastFiredTime>>

NextSteps ==
    \/ CreateSpawn
    \/ CreateDone
    \/ SpawnTimer
    \/ DensityCount
    \/ RegionAdd
    \/ RegionAttach
    \/ DensityReturn
    \/ BulletOverlap
    \/ PlayerCollision
    \/ FlashRevert
    \/ FlashRevertDestroyed
    \/ Update

SpecSteps == InitSteps /\ [][NextSteps]_vars

(***************************************************************************)
(* Properties.                                                             *)
(***************************************************************************)

\* C1: every asteroid that is live in the group has hitPoints > 0.
C1_LiveHitPointsPositive == \A a \in asteroids : a.hitPoints > 0

\* An M asteroid has taken two hits and is live with one hit point left.
C1_Witness ==
    /\ last.op = "handleBulletAsteroidCollision"
    /\ last.res \in {"flashed", "damaged"}
    /\ \E a \in asteroids : a.category = "M" /\ a.hitPoints = 1

\* C2: an asteroid starts with the hit points of its category (XS 1, S 2,
\* M 3); each overlap of a live bullet with a live asteroid takes exactly one
\* hit point from that asteroid and leaves the others alone; the asteroid is
\* removed exactly when its hit points reach 0, so one with k hit points
\* survives k - 1 hits and is destroyed by the k-th.
C2_OneHitPointPerHit ==
    [][/\ (last'.op \in {"spawnAsteroid", "spawnAsteroidInView", "spawnAsteroidInRegion"})
            => \A a \in asteroids' \ asteroids :
                 a.hitPoints = CASE a.category = "XS" -> 1
                                 [] a.category = "S" -> 2
                                 [] a.category = "M" -> 3
       /\ (/\ last'.op = "handleBulletAsteroidCollision"
           /\ last'.bulletActive
           /\ last'.asteroidActive)
            => \E a \in asteroids :
                 IF a.hitPoints = 1
                 THEN /\ asteroids' = asteroids \ {a}
                      /\ last'.res = "destroyed"
                 ELSE /\ last'.res # "destroyed"
                      /\ \E b \in asteroids' :
                           /\ asteroids' = (asteroids \ {a}) \cup {b}
                           /\ b.hitPoints = a.hitPoints - 1
                           /\ b.x = a.x /\ b.y = a.y
                           /\ b.category = a.category
      ]_vars

\* A bullet has just destroyed an asteroid while an M asteroid that took two
\* hits is still live.
C2_Witness ==
    /\ last.op = "handleBulletAsteroidCollision"
    /\ last.res = "destroyed"
    /\ \E a \in asteroids : a.category = "M" /\ a.hitPoints = 1

\* C3: a bullet hit that removes an asteroid emits exactly one explosion, a
\* hit that leaves it live emits none; an overlap event for an asteroid that
\* is no longer active changes nothing, emits nothing and does not consume
\* the bullet it was raised for.
C3_OneExplosionPerDestruction ==
    [][(last'.op = "handleBulletAsteroidCollision") =>
         /\ (last'.bulletActive /\ last'.asteroidActive) =>
               last'.explosions =
                   IF Cardinality(asteroids') < Cardinality(asteroids) THEN 1 ELSE 0
         /\ (~last'.asteroidActive) =>
               /\ asteroids' = asteroids
               /\ orphans' = orphans
               /\ bullets' = bullets
               /\ last'.explosions = 0
      ]_vars

\* An event for a destroyed asteroid was handled and the live bullet it was
\* raised for is still in the group.
C3_Witness ==
    /\ last.op = "handleBulletAsteroidCollision"
    /\ last.bulletActive
    /\ ~last.asteroidActive
    /\ last.asteroidGone
    /\ bullets # {}

\* C4: a bullet has at most one collision effect: the event that takes
\* effect removes the bullet, and an overlap event for a bullet that is no
\* longer active changes no asteroid, no bullet and emits nothing.
C4_BulletActsOnce ==
    [][(last'.op = "handleBulletAsteroidCollision") =>
         /\ (last'.bulletActive /\ last'.asteroidActive) =>
               \E b \in bullets : bullets' = bullets \ {b}
         /\ (~last'.bulletActive) =>
               /\ asteroids' = asteroids
               /\ orphans' = orphans
               /\ bullets' = bullets
               /\ last'.explosions = 0
      ]_vars

\* An event for a consumed bullet and a live asteroid was handled.
C4_Witness ==
    /\ last.op = "handleBulletAsteroidCollision"
    /\ ~last.bulletActive
    /\ last.asteroidActive
    /\ last.bulletGone
    /\ asteroids # {}

\* C5: a flash revert that fires after its asteroid was destroyed changes
\* nothing of it (only the timer is spent); a revert touches its asteroid
\* only if the asteroid is active with hitPoints > 0, and then only clears
\* its hit state.
C5_RevertGuarded ==
    [][(last'.op = "flashRevert") =>
         /\ bullets' = bullets
         /\ (orphans' # orphans) =>
               /\ asteroids' = asteroids
               /\ last'.res = "skipped"
               /\ \E k \in 1..Len(orphans) :
                      last'.object = [orphans[k] EXCEPT !.pending = @ - 1]
         /\ (asteroids' # asteroids) =>
               /\ orphans' = orphans
               /\ \E a \in asteroids :
                    asteroids' = (asteroids \ {a}) \cup
                       {IF a.active /\ a.hitPoints > 0
                        THEN [a EXCEPT !.isHit = FALSE, !.pending = @ - 1]
                        ELSE [a EXCEPT !.pending = @ - 1]}
      ]_vars

\* The revert of an asteroid destroyed while it was flashing has fired.
C5_Witness ==
    /\ last.op = "flashRevert"
    /\ last.res = "skipped"
    /\ ~last.object.active
    /\ last.object.isHit
    /\ orphans = <<>>

\* C6: once create has returned, every asteroid that is added (by the spawn
\* timer or by the density tick) is outside the current viewport when it is
\* added; the in-view scatter runs only during create.
C6_SpawnsOutOfView ==
    [][/\ (last'.op = "spawnAsteroidInView") => pc = "create"
       /\ (pc # "create" /\ Cardinality(asteroids') > Cardinality(asteroids)) =>
             /\ last'.op \in {"spawnAsteroid", "spawnAsteroidInRegion"}
             /\ \A a \in asteroids' \ asteroids :
                    ~(/\ view.left <= a.x /\ a.x <= view.left + viewWidth
                      /\ view.top <= a.y /\ a.y <= view.top + viewHeight)
      ]_vars

\* The spawn timer has added an asteroid after create.
C6_Witness ==
    /\ pc = "idle"
    /\ last.op = "spawnAsteroid"
    /\ last.res = "created"
    /\ Cardinality(asteroids) > 1

\* C7: an asteroid that spawnAsteroidInRegion adds is inside the region it
\* was given and outside the camera's current view; a call that adds none
\* leaves the group as it was.
C7_RegionSpawnPlacement ==
    [][(last'.op = "spawnAsteroidInRegion") =>
         IF last'.res = "created"
         THEN \E a \in asteroids' \ asteroids :
                 /\ asteroids' = asteroids \cup {a}
                 /\ Contains(quadrants[last'.arg], a.x, a.y)
                 /\ ~Contains(worldView, a.x, a.y)
         ELSE asteroids' = asteroids
      ]_vars

\* A region spawn has added an asteroid to the bottom-right quadrant after
\* the camera moved.
C7_Witness ==
    /\ last.op = "spawnAsteroidInRegion"
    /\ last.res = "created"
    /\ last.arg = 4
    /\ view.left < 0

\* C8: a call of spawnAsteroidInRegion all of whose candidates are rejected
\* makes exactly SPAWN_MAX_RETRIES attempts, returns null and adds nothing;
\* no call makes more attempts.
C8_RegionRetriesExhausted ==
    [][(last'.op = "spawnAsteroidInRegion") =>
         /\ last'.attempts <= SPAWN_MAX_RETRIES
         /\ (last'.res = "null") =>
               /\ last'.attempts = SPAWN_MAX_RETRIES
               /\ asteroids' = asteroids
      ]_vars

\* A region spawn has given up although the group had room.
C8_Witness ==
    /\ last.op = "spawnAsteroidInRegion"
    /\ last.res = "null"
    /\ last.attempts = SPAWN_MAX_RETRIES
    /\ Cardinality(asteroids) < sample.maxLive

\* C9: a density tick counts once, before its first spawn request, and then
\* issues for each quadrant max(0, TARGET_ASTEROIDS_PER_QUADRANT - count)
\* requests, whatever the requests return: 4 for an empty quadrant.
C9_RequestsPerQuadrant ==
    [][/\ (pc = "idle" /\ pc' # "idle") => tick'.counts = asteroidCounts
       /\ (pc = "tick") => tick'.counts = tick.counts
       /\ (pc' = "tickDone") =>
             \A i \in 1..4 :
                tick'.issued[i] =
                   IF tick'.counts[i] < TARGET_ASTEROIDS_PER_QUADRANT
                   THEN TARGET_ASTEROIDS_PER_QUADRANT - tick'.counts[i]
                   ELSE 0
      ]_vars

\* A tick has ended that found one quadrant over target and one empty.
C9_Witness ==
    /\ pc = "tickDone"
    /\ \E i \in 1..4 : tick.counts[i] > TARGET_ASTEROIDS_PER_QUADRANT /\ tick.issued[i] = 0
    /\ \E j \in 1..4 : tick.counts[j] = 0 /\ tick.issued[j] = 4

\* C10: the quadrants are the four quarters of the generation window, which
\* is centred on the player and 2.5 times the viewport, cut at the player's
\* position; the count of a tick counts each live asteroid at most once, and
\* exactly the asteroids inside the generation window and outside the inner
\* exclusion rectangle (the viewport grown by PROACTIVE_INNER_BUFFER), those
\* on a line between two quadrants included.
C10_EachAsteroidCountedOnce ==
    (last.op = "checkAndPopulateDistantAreas" /\ last.res = "counted") =>
        LET inWindow(a) ==
                /\ 2 * Abs(a.x - player.x) <= (5 * viewWidth) \div 2
                /\ 2 * Abs(a.y - player.y) <= (5 * viewHeight) \div 2
            inInner(a) ==
                /\ view.left - PROACTIVE_INNER_BUFFER <= a.x
                /\ a.x <= view.left + viewWidth + PROACTIVE_INNER_BUFFER
                /\ view.top - PROACTIVE_INNER_BUFFER <= a.y
                /\ a.y <= view.top + viewHeight + PROACTIVE_INNER_BUFFER
            eligible == {a \in asteroids : inWindow(a) /\ ~inInner(a)}
            inQuarter(a, i) ==
                /\ IF i \in {1, 3} THEN a.x <= player.x ELSE a.x >= player.x
                /\ IF i \in {1, 2} THEN a.y <= player.y ELSE a.y >= player.y
        IN /\ tick.counts[1] + tick.counts[2] + tick.counts[3] + tick.counts[4]
                = Cardinality(eligible)
           /\ \A i \in 1..4 :
                tick.counts[i] <= Cardinality({a \in eligible : inQuarter(a, i)})

\* A count has been taken with an asteroid on the line between two
\* quadrants, one inside the inner exclusion rectangle, and the player away
\* from the centre of the view.
C10_Witness ==
    /\ last.op = "checkAndPopulateDistantAreas"
    /\ last.res = "counted"
    /\ \E a \in asteroids :
         /\ CountedIn(a, 1)
         /\ Contains(quadrants[2], a.x, a.y)
    /\ \E b \in asteroids : Contains(innerBounds, b.x, b.y)
    /\ player.x # view.left + viewWidth \div 2


\* C11: a density-controller tick creates no asteroid inside a quadrant whose
\* count was at or above TARGET_ASTEROIDS_PER_QUADRANT when the tick started,
\* and it creates at most 4 x TARGET_ASTEROIDS_PER_QUADRANT asteroids.
C11_NoSpawnInDenseQuadrant ==
    [][(pc = "tick" /\ last'.op = "spawnAsteroidInRegion") =>
          /\ \A a \in asteroids' \ asteroids : \A i \in 1..4 :
                tick.counts[i] >= TARGET_ASTEROIDS_PER_QUADRANT
                    => ~Contains(quadrants[i], a.x, a.y)
          /\ tick'.issued[1] + tick'.issued[2] + tick'.issued[3] + tick'.issued[4]
                <= 4 * TARGET_ASTEROIDS_PER_QUADRANT]_vars


\* C12: one asteroid cleanup pass removes every asteroid outside the viewport
\* grown by CLEANUP_BUFFER on every side, whatever else the pass removes, and
\* retains every asteroid inside it.
C12_CleanupPassComplete ==
    [][last'.op = "update" =>
          \A a \in asteroids :
             IF OutOfBounds(a, CLEANUP_BUFFER)
             THEN a \notin asteroids'
             ELSE a \in asteroids']_vars

\* C13: after a frame update every live bullet lies within the viewport grown
\* by BULLET_CLEANUP_BUFFER; asteroids there and beyond, up to their own
\* cleanup bounds, are retained.
C13_BulletsWithinBounds ==
    [][last'.op = "update" =>
          /\ \A b \in bullets' : ~OutOfBounds(b, BULLET_CLEANUP_BUFFER)
          /\ \A a \in asteroids :
                ~OutOfBounds(a, CLEANUP_BUFFER) => a \in asteroids']_vars


\* C14: each of the ASTEROID_INITIAL_COUNT spawn requests of create adds
\* exactly one asteroid to the live set, whether the scatter finds a spot in
\* view or falls back to the off-screen edge strategy, so that the set holds
\* ASTEROID_INITIAL_COUNT asteroids when create finishes.
C14_EveryStartupRequestAdds ==
    [][(pc = "create" /\ createI' = createI + 1) =>
          /\ asteroids \subseteq asteroids'
          /\ Cardinality(asteroids') = Cardinality(asteroids) + 1]_vars


\* C15: whichever strategy creates it, a new asteroid is, at its creation, at
\* a centre distance of at least (newSize + existingSize) x 1.2 from every
\* live active asteroid.
C15_NoOverlapAtCreation ==
    [][last'.op \in {"spawnAsteroid", "spawnAsteroidInView", "spawnAsteroidInRegion"} =>
          \A a \in asteroids' \ asteroids : \A b \in asteroids :
             b.active =>
                25 * DistSq(a.x, a.y, b.x, b.y)
                    >= 36 * (a.visualSize + b.visualSize) * (a.visualSize + b.visualSize)]_vars

\* An asteroid was created next to another: the pair is closer than the
\* coarse test's distance and not closer than the required one.
C15_Witness ==
    /\ last.op \in {"spawnAsteroid", "spawnAsteroidInRegion"}
    /\ last.res = "created"
    /\ \E a, b \in asteroids :
          /\ a # b
          /\ 25 * DistSq(a.x, a.y, b.x, b.y)
                >= 36 * (a.visualSize + b.visualSize) * (a.visualSize + b.visualSize)
          /\ 25 * DistSq(a.x, a.y, b.x, b.y)
                <= 81 * (a.visualSize + b.visualSize) * (a.visualSize + b.visualSize)


\* C16: the overlap test is symmetric.  With candidate A and one live
\* asteroid B, both with recorded sizes, the verdict equals the verdict for
\* candidate B against live A, and it is true exactly when the centre
\* distance is below (rA + rB) x 1.2; circles at (0,0) and (15,0) of radius
\* 10 overlap.
C16_OverlapSymmetric ==
    (pc = "checked" /\ Cardinality(asteroids) = 1) =>
        LET B == CHOOSE b \in asteroids : TRUE
            p == CHOOSE q \in sample.pts : TRUE
            rA == CHOOSE size \in sample.sizes : TRUE
            A == NewAsteroid(p.x, p.y, CheckCategory[rA], rA, ASTEROID_MIN_VERTICES)
            minSizeB == ASTEROID_CATEGORIES[B.category].minSize
            swapped == /\ ~TooFarToCheck(B.x, B.y, B.visualSize, A, minSizeB)
                       /\ TooClose(B.x, B.y, B.visualSize, A, minSizeB)
            swappedInView == TooClose(B.x, B.y, B.visualSize, A, minSizeB)
            below == 25 * DistSq(p.x, p.y, B.x, B.y)
                        < 36 * (rA + B.visualSize) * (rA + B.visualSize)
        IN /\ (last.res = "overlaps") = swapped
           /\ (last.arg = 1) = swappedInView
           /\ (last.res = "overlaps") = below
           /\ (p = Pt(15, 0) /\ rA = 10 /\ B.visualSize = 10) => last.res = "overlaps"

\* The check of a small candidate 15 from a small asteroid: they overlap.
C16_Witness ==
    /\ pc = "checked"
    /\ sample.pts = {Pt(15, 0)}
    /\ sample.sizes = {10}
    /\ \E b \in asteroids : asteroids = {b} /\ b.visualSize = 10 /\ b.x = 0 /\ b.y = 0
    /\ last.res = "overlaps"

\* C17: the coarse bounding-box rejection gives no false negative.  For
\* every candidate and live set, the check with the coarse test returns the
\* verdict of the exact distance check without it.
C17_CoarseTestSound ==
    pc = "checked" =>
        LET p == CHOOSE q \in sample.pts : TRUE
            visualSize == CHOOSE size \in sample.sizes : TRUE
            exact == \E b \in asteroids :
                        25 * DistSq(p.x, p.y, b.x, b.y)
                            < 36 * (visualSize + b.visualSize) * (visualSize + b.visualSize)
        IN /\ (last.res = "overlaps") = (last.arg = 1)
           /\ (last.res = "overlaps") = exact

\* A check in which the coarse test skipped one live asteroid and let the
\* exact test decide on another, which it found far enough.
C17_Witness ==
    /\ pc = "checked"
    /\ last.res = "clear"
    /\ LET p == CHOOSE q \in sample.pts : TRUE
           visualSize == CHOOSE size \in sample.sizes : TRUE
       IN \E b, c \in asteroids :
             /\ 5 * Abs(b.x - p.x) > 9 * (visualSize + b.visualSize)
             /\ 5 * Abs(c.x - p.x) <= 9 * (visualSize + c.visualSize)
             /\ 5 * Abs(c.y - p.y) <= 9 * (visualSize + c.visualSize)


\* C18: an asteroid created by the off-screen edge strategy lies, along the
\* chosen edge, between the viewport's side minus SPAWN_BUFFER and its other
\* side plus SPAWN_BUFFER, and, across it, at least SPAWN_BUFFER beyond the
\* chosen edge on the outward side, hence outside the viewport.
C18_EdgeSpawnPlacement ==
    [][(last'.op \in {"spawnAsteroid", "spawnAsteroidInView"}
           /\ last'.res \in {"created", "fallbackCreated"}
           /\ ~(last'.op = "spawnAsteroidInView" /\ last'.res = "created")) =>
          LET left   == view.left
              right  == view.left + viewWidth
              top    == view.top
              bottom == view.top + viewHeight
              alongX(a) == left - SPAWN_BUFFER <= a.x /\ a.x <= right + SPAWN_BUFFER
              alongY(a) == top - SPAWN_BUFFER <= a.y /\ a.y <= bottom + SPAWN_BUFFER
          IN /\ asteroids' # asteroids
             /\ \A a \in asteroids' \ asteroids :
                   /\ ~Contains(worldView, a.x, a.y)
                   /\ last'.arg \in 0..3
                   /\ last'.arg = 0 => alongX(a) /\ a.y <= top - SPAWN_BUFFER
                   /\ last'.arg = 1 => alongY(a) /\ a.x >= right + SPAWN_BUFFER
                   /\ last'.arg = 2 => alongX(a) /\ a.y >= bottom + SPAWN_BUFFER
                   /\ last'.arg = 3 => alongY(a) /\ a.x <= left - SPAWN_BUFFER]_vars

\* The spawn timer placed an asteroid beyond the top edge of a viewport that
\* has moved with the player.
C18_Witness ==
    /\ last.op = "spawnAsteroid"
    /\ last.res = "created"
    /\ last.arg = 0
    /\ view.left < 0
    /\ \E a \in asteroids : a.y <= view.top - SPAWN_BUFFER


\* C19: the edge the off-screen strategy selects is one of the four.  At a
\* player speed of at most PLAYER_SPEED_THRESHOLD_FOR_BIAS it is the uniform
\* draw.  Above it, exactly the edges whose outward direction is within 45
\* degrees, inclusive, of the velocity weigh 1 + SPAWN_BIAS_STRENGTH x 4 and
\* the others 1; one or two edges are boosted, moving straight up, right,
\* down or left boosts top, right, bottom or left alone, and the selection
\* follows the weights.
C19_EdgeBias ==
    pc = "picked" =>
        LET v == CHOOSE w \in sample.velocities : TRUE
            randomEdge == CHOOSE e \in sample.edges : TRUE
            random == CHOOSE r \in sample.eighths : TRUE
            outward == <<Pt(0, -1), Pt(1, 0), Pt(0, 1), Pt(-1, 0)>>
            dot(e) == v.x * outward[e + 1].x + v.y * outward[e + 1].y
            toward(e) == dot(e) > 0 /\ 2 * dot(e) * dot(e) >= v.x * v.x + v.y * v.y
            boosted == {e \in 0..3 : EdgeWeight(v, e) > 10}
            before(e) == IF e = 0 THEN 0
                         ELSE IF e = 1 THEN EdgeWeight(v, 0)
                         ELSE IF e = 2 THEN EdgeWeight(v, 0) + EdgeWeight(v, 1)
                         ELSE EdgeWeight(v, 0) + EdgeWeight(v, 1) + EdgeWeight(v, 2)
            total == before(3) + EdgeWeight(v, 3)
        IN /\ last.arg \in 0..3
           /\ (v.x * v.x + v.y * v.y
                  <= PLAYER_SPEED_THRESHOLD_FOR_BIAS * PLAYER_SPEED_THRESHOLD_FOR_BIAS)
                 => last.arg = randomEdge
           /\ (v.x * v.x + v.y * v.y
                  > PLAYER_SPEED_THRESHOLD_FOR_BIAS * PLAYER_SPEED_THRESHOLD_FOR_BIAS)
                 => /\ \A e \in 0..3 :
                          EdgeWeight(v, e) = IF toward(e)
                                             THEN 10 + SPAWN_BIAS_STRENGTH_TENTHS * 4
                                             ELSE 10
                    /\ Cardinality(boosted) \in {1, 2}
                    /\ (v.x = 0 /\ v.y < 0) => boosted = {0}
                    /\ (v.y = 0 /\ v.x > 0) => boosted = {1}
                    /\ (v.x = 0 /\ v.y > 0) => boosted = {2}
                    /\ (v.y = 0 /\ v.x < 0) => boosted = {3}
                    /\ 8 * before(last.arg) <= random * total
                    /\ random * total < 8 * (before(last.arg) + EdgeWeight(v, last.arg))

\* A fast diagonal heading: two edges are boosted and the selection is not
\* the uniform draw.
C19_Witness ==
    /\ pc = "picked"
    /\ \E v \in sample.velocities :
          /\ v.x = v.y
          /\ v.x * v.x + v.y * v.y
                > PLAYER_SPEED_THRESHOLD_FOR_BIAS * PLAYER_SPEED_THRESHOLD_FOR_BIAS
          /\ Cardinality({e \in 0..3 : EdgeWeight(v, e) > 10}) = 2
    /\ last.arg \notin sample.edges


\* C20: an asteroid the in-view scatter places in view lies inside the
\* initial viewport inset by the asteroid's size on each side, and at a
\* distance of at least PLAYER_INITIAL_SAFE_ZONE_RADIUS from the player's
\* starting position.
C20_ScatterPlacement ==
    [][(last'.op = "spawnAsteroidInView" /\ last'.res = "created") =>
          /\ asteroids' # asteroids
          /\ \A a \in asteroids' \ asteroids :
                /\ a.visualSize <= a.x /\ a.x <= viewWidth - a.visualSize
                /\ a.visualSize <= a.y /\ a.y <= viewHeight - a.visualSize
                /\ DistSq(a.x, a.y, viewWidth \div 2, viewHeight \div 2)
                      >= PLAYER_INITIAL_SAFE_ZONE_RADIUS * PLAYER_INITIAL_SAFE_ZONE_RADIUS]_vars

\* The scatter rejected every candidate but its last, among them candidates
\* at the player's start, and placed a large asteroid on the inset's side.
C20_Witness ==
    /\ last.op = "spawnAsteroidInView"
    /\ last.res = "created"
    /\ last.attempts = SPAWN_MAX_RETRIES * 2
    /\ PtCentre \in sample.pts
    /\ \E a \in asteroids : a.x = viewWidth - a.visualSize


C22_MissingHitPointsRemoved ==
    [][(last'.op = "handleBulletAsteroidCollision"
           /\ last'.bulletActive /\ last'.asteroidActive) =>
          /\ bullets' \subseteq bullets
          /\ Cardinality(bullets') = Cardinality(bullets) - 1
          /\ \A a \in asteroids :
                a.hitPoints = Undefined =>
                   IF a \in asteroids'
                   THEN last'.res # "invalid"
                   ELSE /\ last'.res = "invalid"
                        /\ last'.explosions = 0
                        /\ asteroids' = asteroids \ {a}
                        /\ orphans' = IF a.pending > 0
                                      THEN Append(orphans, Destroyed(a))
                                      ELSE orphans
          /\ last'.res = "invalid" => \E a \in asteroids : a.hitPoints = Undefined]_vars

\* A bullet hit the asteroid without data while a sound one was live.
C22_Witness ==
    /\ last.op = "handleBulletAsteroidCollision"
    /\ last.res = "invalid"
    /\ last.bulletActive /\ last.asteroidActive
    /\ Cardinality(bullets) = 1
    /\ \E a \in asteroids : a.hitPoints > 0


\* C23: when no physics body is attached to a just-created asteroid, the
\* shell is destroyed within the same call: the call leaves the live set as
\* it was, and after every call every asteroid of the live set has a body.
C23_NoBodylessAsteroid ==
    [][/\ \A a \in asteroids' : a.body
       /\ (last'.op \in {"spawnAsteroid", "spawnAsteroidInView", "spawnAsteroidInRegion"}
              /\ last'.res \in {"noBody", "fallbackNoBody"})
             => asteroids' = asteroids]_vars

\* A region request found a spot and got no body, with an asteroid live.
C23_Witness ==
    /\ last.op = "spawnAsteroidInRegion"
    /\ last.res = "noBody"
    /\ last.attempts = 1
    /\ asteroids # {}


\* C24: a player-asteroid collision with an active asteroid removes exactly
\* that asteroid from the live set, whatever its hitPoints, changes no
\* other asteroid and no hitPoints value, and emits one explosion; an event
\* for an inactive asteroid changes nothing and emits none.
C24_PlayerCollisionDestroys ==
    [][last'.op = "handlePlayerAsteroidCollision" =>
          /\ bullets' = bullets
          /\ IF last'.asteroidActive
             THEN /\ \E a \in asteroids : asteroids' = asteroids \ {a}
                  /\ Cardinality(asteroids') = Cardinality(asteroids) - 1
                  /\ last'.explosions = 1
             ELSE /\ asteroids' = asteroids
                  /\ orphans' = orphans
                  /\ last'.explosions = 0]_vars

\* The player destroyed an asteroid that bullets had damaged: it was
\* flashing, and its revert is still pending.
C24_Witness ==
    /\ last.op = "handlePlayerAsteroidCollision"
    /\ last.res = "destroyed"
    /\ last.explosions = 1
    /\ Len(orphans) > 0
    /\ orphans[Len(orphans)].isHit


\* C25: every bullet hit that leaves the asteroid with hitPoints > 0 sets
\* isHit and schedules one more flash revert for that asteroid, also when
\* the asteroid is already flashing from an earlier hit.
C25_EveryHitSchedulesRevert ==
    [][(/\ last'.op = "handleBulletAsteroidCollision"
        /\ last'.res \in {"flashed", "damaged"})
          => \E a \in asteroids : \E b \in asteroids' :
                /\ asteroids' = (asteroids \ {a}) \cup {b}
                /\ b.hitPoints = a.hitPoints - 1
                /\ b.isHit
                /\ b.pending = a.pending + 1]_vars


\* C26: bullet hits, flash application and flash reverts leave the stored
\* outline, the category and the visualSize of every asteroid as they were
\* at creation (an outline of 6 to 11 vertices); of an asteroid's data only
\* hitPoints and isHit change.
C26_ShapeFixedAtCreation ==
    [][last'.op \in {"handleBulletAsteroidCollision", "flashRevert"} =>
          \A b \in asteroids' :
             /\ b.points \in ASTEROID_MIN_VERTICES..ASTEROID_MAX_VERTICES
             /\ \E a \in asteroids :
                   b = [a EXCEPT !.hitPoints = b.hitPoints, !.isHit = b.isHit,
                                 !.pending = b.pending]]_vars

\* A damaged asteroid whose flash has just been reverted.
C26_Witness ==
    /\ last.op = "flashRevert"
    /\ last.res = "reverted"
    /\ \E a \in asteroids :
          /\ a.hitPoints < ASTEROID_CATEGORIES[a.category].hp
          /\ ~a.isHit
          /\ a.points \in ASTEROID_MIN_VERTICES..ASTEROID_MAX_VERTICES


\* C27: every live asteroid has one of the active categories XS, S, M, a
\* visualSize within that category's [minSize, maxSize] and hitPoints from
\* 1 to the category's hp; an asteroid a placement call has just created
\* has hitPoints equal to the category's hp and isHit false.
C27_CategoryBounds ==
    [][/\ \A a \in asteroids' :
             /\ a.category \in ACTIVE_ASTEROID_CATEGORIES
             /\ ASTEROID_CATEGORIES[a.category].minSize <= a.visualSize
             /\ a.visualSize <= ASTEROID_CATEGORIES[a.category].maxSize
             /\ 1 <= a.hitPoints
             /\ a.hitPoints <= ASTEROID_CATEGORIES[a.category].hp
       /\ last'.op \in {"spawnAsteroid", "spawnAsteroidInView", "spawnAsteroidInRegion"} =>
             \A a \in asteroids' \ asteroids :
                /\ a.hitPoints = ASTEROID_CATEGORIES[a.category].hp
                /\ ~a.isHit]_vars

\* An M asteroid has just been created with 3 hit points next to an
\* asteroid that bullets have damaged.
C27_Witness ==
    /\ last.op \in {"spawnAsteroid", "spawnAsteroidInView", "spawnAsteroidInRegion"}
    /\ last.res \in {"created", "fallbackCreated"}
    /\ \E a \in asteroids : a.category = "M" /\ a.hitPoints = 3 /\ a.visualSize = 40
    /\ \E b \in asteroids : b.hitPoints < ASTEROID_CATEGORIES[b.category].hp


\* C28: generateAsteroidPoints returns exactly numVertices points, each at
\* a distance from the origin of at least avgRadius x 0.6 and at most
\* avgRadius x 1.4, for numVertices from 6 to 11 and every draw.
C28_PointCountAndRadius ==
    pc \in {"shape", "shaped", "drawn"} =>
       \A avgRadius \in sample.sizes : \A numVertices \in sample.vertices :
          /\ Len(last.object) <= numVertices
          /\ pc # "shape" => Len(last.object) = numVertices
          /\ \A k \in 1..Len(last.object) :
                /\ avgRadius * 8 * 6 <= last.object[k].radius
                /\ last.object[k].radius <= avgRadius * 8 * 14

\* Eleven points returned, one at the least radius and one near the greatest.
C28_Witness ==
    /\ pc = "shaped"
    /\ last.res = "returned"
    /\ Len(last.object) = ASTEROID_MAX_VERTICES
    /\ \E avgRadius \in sample.sizes :
          /\ \E k \in 1..Len(last.object) : last.object[k].radius = avgRadius * 8 * 6
          /\ \E k \in 1..Len(last.object) : last.object[k].radius >= avgRadius * 8 * 13


\* C29: the points of generateAsteroidPoints are in strictly increasing
\* angle order: each vertex is less than half a sector away from its base
\* angle, every vertex has a larger angle than the one before, the last
\* stays before the first plus a full turn, and every gap between
\* consecutive vertices, last to first included, is below a half turn.
C29_AnglesIncrease ==
    pc \in {"shape", "shaped", "drawn"} =>
       \A numVertices \in sample.vertices :
          LET points == last.object
              angleStep == FullTurn \div numVertices
              Gap(k) == IF k < Len(points)
                        THEN points[k + 1].angle - points[k].angle
                        ELSE points[1].angle + FullTurn - points[k].angle
          IN /\ \A k \in 1..Len(points) :
                   /\ 2 * (points[k].angle - (k - 1) * angleStep) < angleStep
                   /\ 2 * ((k - 1) * angleStep - points[k].angle) < angleStep
             /\ \A k \in 1..(Len(points) - 1) :
                   /\ Gap(k) > 0
                   /\ 2 * Gap(k) < FullTurn
             /\ (pc # "shape" /\ Len(points) > 0) =>
                   /\ Gap(Len(points)) > 0
                   /\ 2 * Gap(Len(points)) < FullTurn

\* Six points returned, with two neighbours pushed apart by the draws to
\* more than 1.5 sector widths and two pulled together to less than half.
C29_Witness ==
    /\ pc = "shaped"
    /\ Len(last.object) = ASTEROID_MIN_VERTICES
    /\ \E k \in 1..(Len(last.object) - 1) :
          2 * (last.object[k + 1].angle - last.object[k].angle)
             > 3 * (FullTurn \div ASTEROID_MIN_VERTICES)
    /\ \E k \in 1..(Len(last.object) - 1) :
          2 * (last.object[k + 1].angle - last.object[k].angle)
             < FullTurn \div ASTEROID_MIN_VERTICES


\* C30: whenever an overlap check, a density count or a cleanup pass reads
\* the live asteroid set, every asteroid in it has a physics body and its
\* category, hitPoints, visualSize, points and isHit set; so it is whenever
\* control is back with the event loop.
C30_LiveSetReadWhole ==
    [][/\ (\/ last'.op \in {"spawnAsteroid", "spawnAsteroidInView", "update"}
           \/ last'.op = "spawnAsteroidInRegion" /\ last'.res \in {"added", "null"}
           \/ last'.op = "checkAndPopulateDistantAreas" /\ last'.res = "counted")
          => \A a \in asteroids :
                /\ a.body
                /\ a.category \in ACTIVE_ASTEROID_CATEGORIES
                /\ a.hitPoints # Undefined
                /\ a.visualSize # Undefined
                /\ a.points # Undefined
                /\ a.isHit \in BOOLEAN
       /\ pc' = "idle"
          => \A a \in asteroids' :
                /\ a.body
                /\ a.category \in ACTIVE_ASTEROID_CATEGORIES
                /\ a.hitPoints # Undefined
                /\ a.visualSize # Undefined
                /\ a.points # Undefined]_vars

\* In the middle of a request of a density tick: a shell without a body is
\* in the group beside a finished asteroid, and the request's overlap check
\* has read the set just before.
C30_Witness ==
    /\ pc = "attach"
    /\ last.op = "spawnAsteroidInRegion"
    /\ last.res = "added"
    /\ \E a \in asteroids : a.category = "none" /\ ~a.body
    /\ \E b \in asteroids : b.category # "none" /\ b.body


\* C31: every bullet leaves the live bullet set: a bullet no asteroid has
\* consumed is destroyed by the cleanup pass of the first frame update that
\* finds it outside the viewport grown by BULLET_CLEANUP_BUFFER.
C31_BulletRemovedOnFirstFrameOutside ==
    [][last'.op = "update" =>
          \A b \in bullets :
             OutOfBounds(b, BULLET_CLEANUP_BUFFER) => b \notin bullets']_vars


\* C32: an asteroid that spawnAsteroidInRegion creates for a quadrant lies
\* inside the asteroid cleanup rectangle, the viewport grown by
\* CLEANUP_BUFFER, of the viewport it was created under, so that the next
\* cleanup pass leaves it.
C32_RegionSpawnWithinCleanupBounds ==
    [][(last'.op = "spawnAsteroidInRegion" /\ last'.res = "created") =>
          \A a \in asteroids' \ asteroids : ~OutOfBounds(a, CLEANUP_BUFFER)]_vars


\* C33: an asteroid that spawnAsteroidInRegion creates for a quadrant is one
\* the density count counts in that quadrant, viewport and player as they
\* were: it lies outside the inner exclusion rectangle; so a quadrant whose
\* requests all succeeded is at its target at the next count.
C33_RegionSpawnIsCounted ==
    [][(last'.op = "spawnAsteroidInRegion" /\ last'.res = "created") =>
          \A a \in asteroids' \ asteroids : CountedIn(a, last'.arg)]_vars


\* C34: an asteroid the off-screen edge strategy creates is at most
\* SPAWN_BUFFER plus its jitter, which is below its visualSize, beyond the
\* viewport, less than CLEANUP_BUFFER: it lies inside the asteroid cleanup
\* rectangle and a cleanup pass under the same viewport, over the entries
\* in any order, leaves it in the live set.
C34_EdgeSpawnSurvivesCleanup ==
    [][(last'.op \in {"spawnAsteroid", "spawnAsteroidInView"}
           /\ last'.res \in {"created", "fallbackCreated"}
           /\ ~(last'.op = "spawnAsteroidInView" /\ last'.res = "created")) =>
          \A a \in asteroids' \ asteroids :
             /\ a.x >= view.left - SPAWN_BUFFER - a.visualSize
             /\ a.x <= view.left + viewWidth + SPAWN_BUFFER + a.visualSize
             /\ a.y >= view.top - SPAWN_BUFFER - a.visualSize
             /\ a.y <= view.top + viewHeight + SPAWN_BUFFER + a.visualSize
             /\ SPAWN_BUFFER + a.visualSize < CLEANUP_BUFFER
             /\ ~OutOfBounds(a, CLEANUP_BUFFER)
             /\ \A entries \in Orders(asteroids') :
                   a \in Range(cleanupOutOfBoundsAsteroids(entries).entries)]_vars

\* The spawn timer placed an M asteroid of the greatest size beyond the
\* right edge, next to an asteroid already live.
C34_Witness ==
    /\ last.op = "spawnAsteroid"
    /\ last.res = "created"
    /\ last.arg = 1
    /\ Cardinality(asteroids) > 1
    /\ \E a \in asteroids :
          /\ a.x >= view.left + viewWidth + SPAWN_BUFFER
          /\ a.visualSize = ASTEROID_CATEGORIES["M"].maxSize


\* C35: every live asteroid has at most one flash revert pending, and its
\* isHit is true exactly while one is pending; a hit the asteroid takes
\* while isHit is true lowers hitPoints and schedules nothing.
C35_OneRevertPerFlash ==
    [][/\ \A a \in asteroids' :
             /\ a.pending \in {0, 1}
             /\ a.isHit <=> a.pending = 1
       /\ (last'.op = "handleBulletAsteroidCollision" /\ last'.res = "damaged") =>
             \E a \in asteroids :
                /\ a.isHit
                /\ asteroids' = (asteroids \ {a}) \cup
                                   {[a EXCEPT !.hitPoints = @ - 1]}]_vars

\* An M asteroid took its second hit while flashing from the first: one hit
\* point left, still flashing, one revert pending.
C35_Witness ==
    /\ last.op = "handleBulletAsteroidCollision"
    /\ last.res = "damaged"
    /\ \E a \in asteroids :
          a.category = "M" /\ a.hitPoints = 1 /\ a.isHit /\ a.pending = 1


\* C36: a flash ends.  The revert callback of a live asteroid, when it
\* fires, sets isHit to false, whatever hits the asteroid took since the
\* flash began; and while the clock keeps firing the callbacks that are
\* due, a flashing asteroid at a place is followed by no flashing asteroid
\* at that place.
C36_FlashEnds ==
    /\ [][(last'.op = "flashRevert" /\ orphans' = orphans) =>
             \E a \in asteroids :
                /\ a.isHit
                /\ a.pending > 0
                /\ asteroids' = (asteroids \ {a}) \cup
                                   {[a EXCEPT !.isHit = FALSE, !.pending = @ - 1]}]_vars
    /\ \A p \in LifeSample.pts \cup LifeSample.driftTo :
          (\E a \in asteroids : a.x = p.x /\ a.y = p.y /\ a.isHit)
             ~> ~(\E a \in asteroids : a.x = p.x /\ a.y = p.y /\ a.isHit)

\* The flash of an M asteroid that took two hits has been reverted.
C36_Witness ==
    /\ last.op = "flashRevert"
    /\ last.res = "reverted"
    /\ \E a \in asteroids :
          a.category = "M" /\ a.hitPoints = 1 /\ ~a.isHit /\ a.pending = 0


\* C37: the explosions emitted are as many as the asteroids destroyed by a
\* lethal bullet hit or by a player collision: each such call emits one and
\* takes one asteroid out of the live set, every other call and step emits
\* none, the cleanup pass of a frame update included, and a call for an
\* asteroid already destroyed emits none.
C37_ExplosionsCountDestructions ==
    [][LET destroys ==
              /\ last'.op \in {"handleBulletAsteroidCollision",
                               "handlePlayerAsteroidCollision"}
              /\ last'.res = "destroyed"
       IN /\ last'.explosions = IF destroys THEN 1 ELSE 0
          /\ destroys => /\ Cardinality(asteroids') = Cardinality(asteroids) - 1
                         /\ asteroids' \subseteq asteroids
                         /\ last'.asteroidActive
          /\ (last'.op \in {"handleBulletAsteroidCollision",
                            "handlePlayerAsteroidCollision"} /\ ~destroys) =>
                Cardinality(asteroids') = Cardinality(asteroids)]_vars

\* A frame update whose cleanup pass removed an asteroid: no explosion.
C37_Witness ==
    /\ last.op = "update"
    /\ last.attempts >= 1
    /\ last.explosions = 0
    /\ Len(orphans) > 0


\* C38: a frame update creates at most one bullet, and only when it fires;
\* it fires only at a frame time more than BULLET_COOLDOWN after
\* lastFiredTime, which it then sets to that time, so that two consecutive
\* shots are more than BULLET_COOLDOWN apart and none comes at a frame time
\* of BULLET_COOLDOWN or less; an update that does not fire leaves
\* lastFiredTime alone.
C38_ShotsRespectCooldown ==
    [][last'.op = "update" =>
          /\ Cardinality(bullets' \ bullets) <= 1
          /\ IF last'.res = "fired"
             THEN /\ lastFiredTime' > lastFiredTime + BULLET_COOLDOWN
                  /\ lastFiredTime' > BULLET_COOLDOWN
             ELSE /\ lastFiredTime' = lastFiredTime
                  /\ bullets' \subseteq bullets]_vars

\* The second shot, one frame after the cooldown of the first ran out, with
\* the first bullet still in flight.
C38_Witness ==
    /\ last.op = "update"
    /\ last.res = "fired"
    /\ lastFiredTime = 2 * (BULLET_COOLDOWN + 1)
    /\ Cardinality(bullets) = 2

====
